---- MODULE Spec2Model ----
(***************************************************************************)
(* A model of the notes-generation core of lec_notes: the LangGraph        *)
(* workflow (router + five handlers), the Subtopic and ContentChunk        *)
(* tables, the embedding client, the vector retriever and the direct edit  *)
(* endpoint.  Every definition is translated from the Python source under  *)
(* src/app; Python values are encoded as follows:                          *)
(*   None            -> the string None ("<None>")                         *)
(*   a missing key   -> the string Absent ("<absent>")                     *)
(*   Dict[int,str]   -> a function over DictKeys whose value is Absent     *)
(*                      where the key is not in the dict                   *)
(*   List            -> a sequence, indexed 0-based through PyGet          *)
(***************************************************************************)
EXTENDS Integers, Sequences, FiniteSets, TLC

VARIABLES
    pc,          \* position of the workflow invocation in the graph
    state,       \* the GenerationState flowing through the graph
    input,       \* the GenerationState the invocation was started with
    visited,     \* nodes executed by the current invocation, in order
    routed,      \* what route_action returned in the current invocation
    path,        \* which path the handler took: success, precondition, exception
    invocations, \* number of invocations started on this thread
    genRuns,     \* per subtopic index: generate handler runs that succeeded
    subtopics,   \* the subtopics table (sequence of rows, id = position)
    subtopics0,  \* the subtopics table when the current invocation started
    chunks,      \* the content_chunks table (sequence of rows)
    session,     \* the generation_sessions row
    svc,         \* last service / endpoint call: operation, outcome, inputs
    emb,         \* the running embed_texts call
    chunker,     \* the running chunk_content call: input and returned chunks
    ckpt,        \* the checkpoints table, its clock and the last checkpointer call
    run,         \* the running run_workflow call: retry loop, errors, outcome
    conv,        \* the conversation_messages of the session and its token counter
    overlap      \* two publish invocations of one subtopic running side by side

vars == <<pc, state, input, visited, routed, path, invocations, genRuns,
          subtopics, subtopics0, chunks, session, svc, emb, chunker, ckpt, run, conv,
          overlap>>

\* the variables of the generation core
core == <<pc, state, input, visited, routed, path, invocations, genRuns,
          subtopics, subtopics0, chunks, session, svc, emb>>

\* the variables of the components added after the generation core
rest == <<chunker, ckpt, run, conv, overlap>>

----------------------------------------------------------------------------
(* Bounds of the model *)

MaxSubtopics == 3
MaxInvocations == 3
MaxTexts == 45
StoreSubtopics == 3
MaxEdits == 2
MaxParagraphs == 3
MaxCheckpointIds == 2
MaxWrites == 2
MaxCalls == 2
MaxMessages == 4

----------------------------------------------------------------------------
(* Python values *)

None == "<None>"
Absent == "<absent>"
Raise == "<raise>"

\* bool(x) of an Optional[str]
Truthy(x) == x \notin {None, ""}

\* Python list indexing, 0-based, negative indices counted from the end
PyInRange(seq, i) == (-Len(seq) <= i) /\ (i < Len(seq))
PyGet(seq, i) == IF i >= 0 THEN seq[i + 1] ELSE seq[Len(seq) + i + 1]
PySet(seq, i, v) ==
    IF i >= 0 THEN [seq EXCEPT ![i + 1] = v]
    ELSE [seq EXCEPT ![Len(seq) + i + 1] = v]

Min(a, b) == IF a < b THEN a ELSE b

----------------------------------------------------------------------------
(* GenerationState (src/app/langgraph/state.py) and the Subtopic table *)

Handlers == {"generate", "edit", "consult", "publish", "next"}
END == "__end__"

\* keys a generated_content dict can hold in the model
DictKeys == (0 - 1) .. (MaxSubtopics - 1)

\* the planned titles of a topic with n subtopics
PlannedTitles == <<"t1", "t2", "t3", "t4">>
TitlesOf(n) == SubSeq(PlannedTitles, 1, n)

\* edit_data: a dict with optional keys "title" and "content", or None
NoEditData == [none |-> TRUE, title |-> Absent, content |-> Absent]
EditData(title, content) == [none |-> FALSE, title |-> title, content |-> content]

\* bool(edit_data) and "content" in edit_data
HasEditContent(ed) == (~ed.none) /\ (ed.content # Absent)

\* A Subtopic row (src/app/models/notes.py); its id is its position in the table
Subtopic(topic_id, order, title, content, is_published, published_at) ==
    [topic_id |-> topic_id, order |-> order, title |-> title, content |-> content,
     is_published |-> is_published, published_at |-> published_at]

Now == "now"

\* db.query(Subtopic).filter(topic_id == t, order == o): the matching row ids
SubtopicIds(subs, t, o) ==
    {i \in 1..Len(subs) : subs[i].topic_id = t /\ subs[i].order = o}

SetMin(S) == CHOOSE x \in S : \A y \in S : x <= y

\* .first(): the matching row with the lowest id, 0 when there is none
FirstSubtopic(subs, t, o) ==
    IF SubtopicIds(subs, t, o) = {} THEN 0 ELSE SetMin(SubtopicIds(subs, t, o))

\* filter(topic_id == t).order_by(order.desc()).first()
LastSubtopic(subs, t) ==
    LET ids == {i \in 1..Len(subs) : subs[i].topic_id = t} IN
    IF ids = {} THEN 0
    ELSE SetMin({i \in ids : \A j \in ids : subs[j].order <= subs[i].order})

----------------------------------------------------------------------------
(* The handlers (src/app/langgraph/nodes.py) *)

\* azure_client.generate_subtopic_content / suggest_improvements: one model
\* call that returns text or raises
ModelOutcomes == {Raise, "g1"}
\* a database round trip succeeds or raises
DbOutcomes == {"ok", "error"}

\* an except block that forgets to clear action
HandlerFailedKeepsAction(s, msg) == [s EXCEPT !.error_message = msg]

\* an except block that forgets to record the error
HandlerFailedNoMessage(s, msg) == [s EXCEPT !.action = None]

\* the except blocks: a copy of the input state with error_message and action
HandlerFailed(s, msg) == [s EXCEPT !.error_message = msg, !.action = None]

generate_content_node(s, llm) ==
    LET idx == s.current_subtopic_index IN
    IF ~PyInRange(s.subtopic_titles, idx)
    THEN HandlerFailed(s, "Generation failed: list index out of range")
    ELSE IF llm = Raise
    THEN HandlerFailed(s, "Generation failed: model call failed")
    ELSE [s EXCEPT !.current_content = llm,
                   !.generated_content[idx] = llm,
                   !.error_message = None,
                   !.action = None]

generate_path(s, llm) ==
    IF ~PyInRange(s.subtopic_titles, s.current_subtopic_index) \/ llm = Raise
    THEN "exception" ELSE "success"

\* an edit handler that writes the title slot even when no title is supplied
edit_content_node_always_title(s) ==
    LET idx == s.current_subtopic_index
        ed == s.edit_data IN
    IF HasEditContent(ed)
    THEN IF ~PyInRange(s.subtopic_titles, idx)
         THEN HandlerFailed(s, "Edit failed: list assignment index out of range")
         ELSE [s EXCEPT !.current_content = ed.content,
                        !.generated_content[idx] = ed.content,
                        !.subtopic_titles =
                            PySet(@, idx, IF ed.title # Absent THEN ed.title ELSE ""),
                        !.error_message = None,
                        !.action = None]
    ELSE [s EXCEPT !.error_message = "No edit data provided", !.action = None]

edit_content_node(s) ==
    LET idx == s.current_subtopic_index
        ed == s.edit_data IN
    IF HasEditContent(ed)
    THEN IF ed.title # Absent /\ ~PyInRange(s.subtopic_titles, idx)
         THEN HandlerFailed(s, "Edit failed: list assignment index out of range")
         ELSE [s EXCEPT !.current_content = ed.content,
                        !.generated_content[idx] = ed.content,
                        !.subtopic_titles =
                            IF ed.title # Absent THEN PySet(@, idx, ed.title) ELSE @,
                        !.error_message = None,
                        !.action = None]
    ELSE [s EXCEPT !.error_message = "No edit data provided", !.action = None]

edit_path(s) ==
    IF HasEditContent(s.edit_data)
    THEN IF s.edit_data.title # Absent
            /\ ~PyInRange(s.subtopic_titles, s.current_subtopic_index)
         THEN "exception" ELSE "success"
    ELSE "precondition"

\* the content consult_ai_node works on: current_content, else
\* generated_content[index], else the database row (exact order, else the
\* most recent row of the topic); None when nothing is found
ConsultContent(s, subs) ==
    LET idx == s.current_subtopic_index
        exact == FirstSubtopic(subs, s.topic_id, idx + 1)
        row == IF exact # 0 THEN exact ELSE LastSubtopic(subs, s.topic_id) IN
    IF Truthy(s.current_content) THEN s.current_content
    ELSE IF s.generated_content[idx] # Absent THEN s.generated_content[idx]
    ELSE IF row # 0 /\ Truthy(subs[row].content) THEN subs[row].content
    ELSE None

\* whether consult_ai_node reaches the database lookup
ConsultReadsDb(s) ==
    Truthy(s.consult_request) /\ ~Truthy(s.current_content)
    /\ s.generated_content[s.current_subtopic_index] = Absent

\* a consult handler that keeps the content it looked up in the state
consult_ai_node_keeps_content(s, subs, llm, db) ==
    IF ~Truthy(s.consult_request)
    THEN [s EXCEPT !.error_message = "No consultation request provided",
                   !.action = None]
    ELSE IF ConsultReadsDb(s) /\ db = "error"
    THEN HandlerFailed(s, "AI consultation failed: database error")
    ELSE IF ~Truthy(ConsultContent(s, subs))
    THEN [s EXCEPT !.error_message = "No content found for subtopic",
                   !.action = None]
    ELSE IF llm = Raise
    THEN HandlerFailed(s, "AI consultation failed: model call failed")
    ELSE [s EXCEPT !.ai_suggestions = "suggestions for: " \o s.consult_request,
                   !.current_content = ConsultContent(s, subs),
                   !.error_message = None,
                   !.action = None]

consult_ai_node(s, subs, llm, db) ==
    IF ~Truthy(s.consult_request)
    THEN [s EXCEPT !.error_message = "No consultation request provided",
                   !.action = None]
    ELSE IF ConsultReadsDb(s) /\ db = "error"
    THEN HandlerFailed(s, "AI consultation failed: database error")
    ELSE IF ~Truthy(ConsultContent(s, subs))
    THEN [s EXCEPT !.error_message = "No content found for subtopic",
                   !.action = None]
    ELSE IF llm = Raise
    THEN HandlerFailed(s, "AI consultation failed: model call failed")
    ELSE [s EXCEPT !.ai_suggestions = "suggestions for: " \o s.consult_request,
                   !.error_message = None,
                   !.action = None]

consult_path(s, subs, llm, db) ==
    IF ~Truthy(s.consult_request) THEN "precondition"
    ELSE IF ConsultReadsDb(s) /\ db = "error" THEN "exception"
    ELSE IF ~Truthy(ConsultContent(s, subs)) THEN "precondition"
    ELSE IF llm = Raise THEN "exception"
    ELSE "success"

\* content_to_publish: current_content if truthy, else generated_content[index]
\* if the key is present, else Absent (the handler raises ValueError)
ContentToPublish(s) ==
    IF Truthy(s.current_content) THEN s.current_content
    ELSE s.generated_content[s.current_subtopic_index]

\* a publish that inserts a row without looking for an existing one
PublishRowAlwaysInserts(s, subs, content) ==
    Append(subs, Subtopic(s.topic_id, s.current_subtopic_index + 1,
                          PyGet(s.subtopic_titles, s.current_subtopic_index),
                          content, TRUE, Now))

\* the write that follows the lookup: a new row when the lookup found none
\* (row = 0), else the found row overwritten; committed
PublishWrite(s, subs, row, content) ==
    LET idx == s.current_subtopic_index
        title == PyGet(s.subtopic_titles, idx) IN
    IF row = 0
    THEN Append(subs, Subtopic(s.topic_id, idx + 1, title, content, TRUE, Now))
    ELSE [subs EXCEPT ![row] = [@ EXCEPT !.title = title,
                                         !.content = content,
                                         !.is_published = TRUE,
                                         !.published_at = Now]]

\* the find-or-create of the Subtopic row, committed
PublishRow(s, subs, content) ==
    PublishWrite(s, subs,
                 FirstSubtopic(subs, s.topic_id, s.current_subtopic_index + 1),
                 content)

publish_path(s, db) ==
    IF ContentToPublish(s) = Absent THEN "exception"
    ELSE IF db = "error" THEN "exception"
    ELSE IF ~PyInRange(s.subtopic_titles, s.current_subtopic_index) THEN "exception"
    ELSE "success"

publish_subtopic_node(s, db) ==
    IF ContentToPublish(s) = Absent
    THEN HandlerFailed(s, "Publishing failed: No content available to publish")
    ELSE IF db = "error"
    THEN HandlerFailed(s, "Publishing failed: database error")
    ELSE IF ~PyInRange(s.subtopic_titles, s.current_subtopic_index)
    THEN HandlerFailed(s, "Publishing failed: list index out of range")
    ELSE [s EXCEPT !.current_content = ContentToPublish(s),
                   !.published_subtopics = Append(@, s.current_subtopic_index),
                   !.error_message = None,
                   !.action = None]

\* the Subtopic table after publish_subtopic_node
publish_subtopics(s, subs, db) ==
    IF publish_path(s, db) = "success"
    THEN PublishRow(s, subs, ContentToPublish(s))
    ELSE subs

next_path(s, llm) ==
    IF s.current_subtopic_index < s.total_subtopics - 1
    THEN IF ~PyInRange(s.subtopic_titles, s.current_subtopic_index + 1) \/ llm = Raise
         THEN "exception" ELSE "success"
    ELSE "precondition"

next_subtopic_node(s, llm) ==
    LET new_index == s.current_subtopic_index + 1 IN
    IF s.current_subtopic_index < s.total_subtopics - 1
    THEN IF ~PyInRange(s.subtopic_titles, new_index)
         THEN HandlerFailed(s, "Next subtopic failed: list index out of range")
         ELSE IF llm = Raise
         THEN HandlerFailed(s, "Next subtopic failed: model call failed")
         ELSE [s EXCEPT !.current_subtopic_index = new_index,
                        !.current_content = llm,
                        !.generated_content[new_index] = llm,
                        !.ai_suggestions = None,
                        !.consult_request = None,
                        !.edit_data = NoEditData,
                        !.error_message = None,
                        !.action = None]
    ELSE [s EXCEPT !.action = None]

----------------------------------------------------------------------------
(* The graph (src/app/langgraph/workflow.py) *)

\* a router that hands an unknown action on as the target
route_action_passthrough(s) ==
    IF s.current_subtopic_index >= s.total_subtopics THEN END
    ELSE IF s.action \in {"complete", None} THEN END
    ELSE s.action

\* route_action: the conditional edge out of the router
route_action(s) ==
    IF s.current_subtopic_index >= s.total_subtopics THEN END
    ELSE IF s.action = "generate" THEN "generate"
    ELSE IF s.action = "edit" THEN "edit"
    ELSE IF s.action = "consult" THEN "consult"
    ELSE IF s.action = "publish" THEN "publish"
    ELSE IF s.action = "next" THEN "next"
    ELSE END

all_destinations == {"edit", "consult", "publish", "next", "generate", END}

\* _router_node passes the state through
router_node(s) == s

\* handlers wired back to the router instead of END
NodeEdgeBackToRouter(node) == "router"

\* workflow.add_edge(node_name, END) for each of the five handlers
NodeEdge(node) == END

\* config["recursion_limit"]: the number of node executions one ainvoke allows
recursion_limit == 50

----------------------------------------------------------------------------
(* One workflow invocation (compiled_workflow.ainvoke), node by node *)

GenerationState(topic_id, total, idx, action, cc, gc, ed, cr, err) ==
    [topic_id |-> topic_id,
     subtopic_titles |-> TitlesOf(total),
     current_subtopic_index |-> idx,
     total_subtopics |-> total,
     generated_content |-> gc,
     published_subtopics |-> <<>>,
     action |-> action,
     edit_data |-> ed,
     consult_request |-> cr,
     current_content |-> cc,
     ai_suggestions |-> None,
     error_message |-> err]

NoSession ==
    [topic_id |-> 0, current_subtopic |-> 0, total_subtopics |-> 0, status |-> "none"]
NoCall == [op |-> "none", outcome |-> "none", prev |-> "none"]
NoEmbed == [pc |-> "idle", texts |-> <<>>, cleaned |-> <<>>, i |-> 0,
            all_embeddings |-> <<>>, calls |-> <<>>, failed |-> 0]
NoChunker == [pc |-> "idle", content |-> <<>>, title |-> "", chunks |-> <<>>]

\* thread ids of the checkpoint store
Threads == {"ta", "tb"}

NoCheckpoints ==
    [rows |-> <<>>, now |-> 0,
     lastPut |-> [th \in Threads |-> <<>>],
     live |-> [th \in Threads |-> 0],
     call |-> [op |-> "none", thread_id |-> "", result |-> "none",
               tuples |-> <<>>, before |-> <<>>]]

NoRun ==
    [pc |-> "idle", retry_count |-> 0, compiled |-> FALSE, checkpointer |-> "None",
     calls |-> 0, ainvokes |-> 0, errors |-> <<>>, delays |-> <<>>, report |-> "none",
     action |-> None, handler_runs |-> 0]

NoConversation ==
    [messages |-> <<>>, conversation_token_count |-> 0, added |-> 0,
     call |-> [op |-> "none", before |-> <<>>, count_before |-> 0]]

\* the two invocations that may overlap on one subtopic
Writers == {"w1", "w2"}

NoOverlap ==
    [pc |-> [w \in Writers |-> "idle"],
     state |-> [w \in Writers |-> None],
     found |-> [w \in Writers |-> 0]]

\* the components a specification does not exercise stay idle
RestIdle ==
    /\ chunker = NoChunker
    /\ ckpt = NoCheckpoints
    /\ overlap = NoOverlap
    /\ run = NoRun
    /\ conv = NoConversation

\* the node about to run is the entry point of a fresh invocation
StartInvocation(s) ==
    /\ pc' = "router"
    /\ state' = s
    /\ input' = s
    /\ visited' = <<>>
    /\ routed' = "none"
    /\ path' = "none"
    /\ subtopics0' = subtopics

\* a node may run only while the recursion limit is not exhausted
Step(node) == pc = node /\ Len(visited) < recursion_limit

Router ==
    /\ Step("router")
    /\ state' = router_node(state)
    /\ routed' = route_action(state)
    /\ visited' = Append(visited, "router")
    /\ pc' = IF route_action(state) \in all_destinations
             THEN route_action(state) ELSE "KeyError"
    /\ UNCHANGED rest
    /\ UNCHANGED <<input, path, invocations, genRuns, subtopics, subtopics0,
                   chunks, session, svc, emb>>

Generate ==
    /\ Step("generate")
    /\ \E llm \in ModelOutcomes :
        /\ state' = generate_content_node(state, llm)
        /\ path' = generate_path(state, llm)
        /\ genRuns' = IF generate_path(state, llm) = "success"
                      THEN [genRuns EXCEPT ![state.current_subtopic_index] = @ + 1]
                      ELSE genRuns
    /\ visited' = Append(visited, "generate")
    /\ pc' = NodeEdge("generate")
    /\ UNCHANGED rest
    /\ UNCHANGED <<input, routed, invocations, subtopics, subtopics0,
                   chunks, session, svc, emb>>

Edit ==
    /\ Step("edit")
    /\ state' = edit_content_node(state)
    /\ path' = edit_path(state)
    /\ visited' = Append(visited, "edit")
    /\ pc' = NodeEdge("edit")
    /\ UNCHANGED rest
    /\ UNCHANGED <<input, routed, invocations, genRuns, subtopics, subtopics0,
                   chunks, session, svc, emb>>

Consult ==
    /\ Step("consult")
    /\ \E llm \in ModelOutcomes, db \in DbOutcomes :
        /\ state' = consult_ai_node(state, subtopics, llm, db)
        /\ path' = consult_path(state, subtopics, llm, db)
    /\ visited' = Append(visited, "consult")
    /\ pc' = NodeEdge("consult")
    /\ UNCHANGED rest
    /\ UNCHANGED <<input, routed, invocations, genRuns, subtopics, subtopics0,
                   chunks, session, svc, emb>>

Publish ==
    /\ Step("publish")
    /\ \E db \in DbOutcomes :
        /\ state' = publish_subtopic_node(state, db)
        /\ subtopics' = publish_subtopics(state, subtopics, db)
        /\ path' = publish_path(state, db)
    /\ visited' = Append(visited, "publish")
    /\ pc' = NodeEdge("publish")
    /\ UNCHANGED rest
    /\ UNCHANGED <<input, routed, invocations, genRuns, subtopics0,
                   chunks, session, svc, emb>>

NextSubtopic ==
    /\ Step("next")
    /\ \E llm \in ModelOutcomes :
        /\ state' = next_subtopic_node(state, llm)
        /\ path' = next_path(state, llm)
    /\ visited' = Append(visited, "next")
    /\ pc' = NodeEdge("next")
    /\ UNCHANGED rest
    /\ UNCHANGED <<input, routed, invocations, genRuns, subtopics, subtopics0,
                   chunks, session, svc, emb>>

\* the values of action a caller may hand in: the five handlers, "complete",
\* None and a string the router does not know
Actions == Handlers \cup {"complete", None, "bogus"}

InputContents == {None, "", "c0"}
DictContents == {Absent, "", "g0"}
InputDicts == {gc \in [DictKeys -> DictContents] : gc[0 - 1] = Absent}
EditInputs ==
    {NoEditData, EditData(Absent, Absent), EditData("T", Absent),
     EditData(Absent, "e1"), EditData("T", ""), EditData("T", "e1")}
ConsultInputs == {None, "", "q"}

\* the request payload that comes with an action
PayloadsOf(a) ==
    IF a = "edit" THEN {[ed |-> ed, cr |-> None] : ed \in EditInputs}
    ELSE IF a = "consult" THEN {[ed |-> NoEditData, cr |-> cr] : cr \in ConsultInputs}
    ELSE {[ed |-> NoEditData, cr |-> None]}

\* Subtopic tables an invocation may find: empty, a draft or a published row
\* for order 1 of topic 1, a row without content, a row of another topic
InitTables ==
    {<<>>,
     <<Subtopic(1, 1, "t1", "d1", FALSE, None)>>,
     <<Subtopic(1, 1, "t1", "d1", TRUE, Now)>>,
     <<Subtopic(2, 1, "u1", "x1", FALSE, None), Subtopic(1, 1, "t1", "", FALSE, None)>>}

InitWorkflow ==
    /\ RestIdle
    /\ \E total \in 1..MaxSubtopics, a \in Actions, cc \in InputContents,
          gc \in InputDicts, err \in {None, "earlier error"} :
        \E idx \in (0 - 1)..total, pl \in PayloadsOf(a) :
            /\ state = GenerationState(1, total, idx, a, cc, gc, pl.ed, pl.cr, err)
            /\ input = state
    /\ subtopics \in InitTables
    /\ subtopics0 = subtopics
    /\ pc = "router"
    /\ visited = <<>>
    /\ routed = "none"
    /\ path = "none"
    /\ invocations = 1
    /\ genRuns = [k \in DictKeys |-> 0]
    /\ chunks = <<>>
    /\ session = NoSession
    /\ svc = NoCall
    /\ emb = NoEmbed

NextWorkflow ==
    \/ Router
    \/ Generate
    \/ Edit
    \/ Consult
    \/ Publish
    \/ NextSubtopic

SpecWorkflow == InitWorkflow /\ [][NextWorkflow]_vars

----------------------------------------------------------------------------
(* Claims about one workflow invocation, checked under SpecWorkflow *)

\* the handler of the current invocation has returned
HandlerRan == path # "none"

\* C1: every handler (generate, edit, consult, publish, next) returns a state
\* whose action is None, on the success path, on a precondition failure and
\* after a caught exception, for every input state.
C1_ActionCleared == HandlerRan => state.action = None

C1_Witness ==
    /\ pc = END
    /\ path = "exception"
    /\ visited = <<"router", "next">>
    /\ input.action = "next"

\* the target the routing table of the specification gives for a state
ExpectedTarget(s) ==
    IF s.action \in Handlers /\ s.current_subtopic_index < s.total_subtopics
    THEN s.action ELSE END

\* C2: the router sends generate, edit, consult, publish and next to the
\* handler of the same name when current_subtopic_index < total_subtopics, and
\* everything else (None, "complete", an unknown action, or an index at or past
\* total_subtopics) to END; the target is always a declared destination.
C2_RouterTable ==
    /\ pc # "KeyError"
    /\ routed # "none" =>
        /\ routed = ExpectedTarget(input)
        /\ routed \in all_destinations
        /\ Len(visited) = 1 => pc = routed

C2_Witness ==
    /\ routed = END
    /\ input.action = "bogus"
    /\ input.current_subtopic_index < input.total_subtopics

\* C3: one invocation runs the router once and at most one handler once, then
\* ends: no handler output goes back to the router, to itself or to another
\* handler, and every node that is not END has a step to take.
C3_OneRouterOneHandler ==
    /\ visited \in {<<>>, <<"router">>} \cup {<<"router", h>> : h \in Handlers}
    /\ pc \in {"router", END} \cup Handlers
    /\ Len(visited) = 0 => pc = "router"
    /\ Len(visited) = 2 => pc = END
    /\ pc # END => ENABLED NextWorkflow

C3_Witness ==
    /\ pc = END
    /\ visited = <<"router", "publish">>
    /\ input.action = "publish"

\* C4: a handler whose body raises returns normally with error_message set
\* and action None; a handler that completes its effect returns
\* error_message = None.
C4_FailureReported ==
    /\ path = "exception" => (state.error_message # None /\ state.action = None)
    /\ path = "success" => state.error_message = None
    /\ HandlerRan => pc = END

C4_Witness ==
    /\ pc = END
    /\ path = "exception"
    /\ visited = <<"router", "publish">>
    /\ input.error_message = None

\* the state holds no content for the current subtopic: current_content is
\* None or empty, and generated_content has no or an empty entry for the index
NoContentAvailable(s) ==
    /\ ~Truthy(s.current_content)
    /\ ~Truthy(s.generated_content[s.current_subtopic_index])
    /\ s.generated_content[s.current_subtopic_index] \in {Absent, ""}

C24_EditRequiresPayload ==
    (HandlerRan /\ routed = "edit") =>
        LET ed == input.edit_data
            idx == input.current_subtopic_index IN
        /\ state.current_subtopic_index = idx
        /\ genRuns = [k \in DictKeys |-> 0]
        /\ subtopics = subtopics0
        /\ IF HasEditContent(ed)
           THEN /\ path = "success"
                /\ state.error_message = None
                /\ state.current_content = ed.content
                /\ state.generated_content[idx] = ed.content
                /\ \A k \in DictKeys \ {idx} :
                       state.generated_content[k] = input.generated_content[k]
                /\ state.subtopic_titles =
                       IF ed.title = Absent THEN input.subtopic_titles
                       ELSE PySet(input.subtopic_titles, idx, ed.title)
           ELSE /\ path = "precondition"
                /\ state.error_message = "No edit data provided"
                /\ state.current_content = input.current_content
                /\ state.generated_content = input.generated_content
                /\ state.subtopic_titles = input.subtopic_titles

C24_Witness ==
    /\ HandlerRan
    /\ routed = "edit"
    /\ input.edit_data = EditData(Absent, "e1")
    /\ input.current_content = "c0"
    /\ input.generated_content[1] = "g0"
    /\ input.current_subtopic_index = 0
    /\ state.current_content = "e1"

\* C8: a publish with no content available for the current subtopic fails
\* with the "no content available" error, writes nothing to the Subtopic
\* table and does not add the index to published_subtopics.
C8_PublishWithoutContentFails ==
    (visited = <<"router", "publish">> /\ NoContentAvailable(input)) =>
        /\ state.error_message = "Publishing failed: No content available to publish"
        /\ subtopics = subtopics0
        /\ state.published_subtopics = input.published_subtopics

----------------------------------------------------------------------------
(* A thread: start_generation, then continue_with_action, and the service  *)
(* operations of GenerationService on the session                          *)

\* the fields GenerationState declares without a default (state.py 6-15)
RequiredFields ==
    {"session_id", "topic_id", "topic_title", "topic_description", "level",
     "subtopic_titles", "current_subtopic_index", "total_subtopics"}

\* the keyword arguments the service operations construct GenerationState with
ServiceKwargs ==
    {"session_id", "topic_id", "topic_title", "level", "subtopic_titles",
     "current_subtopic_index", "total_subtopics", "action"}

\* pydantic's validation of a construction: every required field is given
Constructs(kwargs) == RequiredFields \subseteq kwargs

EmptyDict == [k \in DictKeys |-> Absent]

\* compiled_workflow.ainvoke as one step: the router, then the routed handler
ainvoke_state(s, subs, llm, db) ==
    LET t == route_action(router_node(s)) IN
    IF t = "generate" THEN generate_content_node(s, llm)
    ELSE IF t = "edit" THEN edit_content_node(s)
    ELSE IF t = "consult" THEN consult_ai_node(s, subs, llm, db)
    ELSE IF t = "publish" THEN publish_subtopic_node(s, db)
    ELSE IF t = "next" THEN next_subtopic_node(s, llm)
    ELSE s

ainvoke_subtopics(s, subs, db) ==
    IF route_action(router_node(s)) = "publish"
    THEN publish_subtopics(s, subs, db) ELSE subs

\* no invocation is in flight on the thread
Quiet == pc \in {"idle", END}

\* no service operation has been called on the session
NoServiceCall ==
    [op |-> "none", outcome |-> "none", prev |-> "none", at |-> 0,
     built |-> FALSE, index |-> 0]

\* a service operation ended with outcome; at is session.current_subtopic when
\* it was called, index the current_subtopic_index it computed, built whether
\* it went on to build a GenerationState with it
Called(op, outcome, built, index) ==
    svc' = [op |-> op, outcome |-> outcome, prev |-> svc.op,
            at |-> session.current_subtopic, built |-> built, index |-> index]

\* NotesGenerationWorkflow.start_generation: the first invocation of a thread
StartGeneration ==
    /\ pc = "idle"
    /\ invocations' = 1
    /\ StartInvocation([state EXCEPT !.action = "generate"])
    /\ UNCHANGED rest
    /\ UNCHANGED <<genRuns, subtopics, chunks, session, svc, emb>>

\* the keyword arguments a continue_with_action call may carry
ContinuePayloads(a) ==
    IF a = "edit"
    THEN {EditData(Absent, "e1"), EditData("T", ""), EditData("T", "e2")}
    ELSE IF a = "consult" THEN {"q"}
    ELSE {None}

\* NotesGenerationWorkflow.continue_with_action: the checkpointed values with
\* the new action and the keyword arguments written over them
ContinueWithAction ==
    /\ pc = END
    /\ invocations < MaxInvocations
    /\ invocations' = invocations + 1
    /\ \E a \in Handlers : \E kw \in ContinuePayloads(a) :
        StartInvocation(
            [state EXCEPT !.action = a,
                          !.edit_data = IF a = "edit" THEN kw ELSE @,
                          !.consult_request = IF a = "consult" THEN kw ELSE @])
    /\ UNCHANGED rest
    /\ UNCHANGED <<genRuns, subtopics, chunks, session, svc, emb>>

\* GenerationService.begin_generation
begin_generation ==
    /\ Quiet
    /\ session.status # "none"
    /\ \E llm \in ModelOutcomes, db \in DbOutcomes :
        LET s == GenerationState(session.topic_id, session.total_subtopics, 0,
                                 "generate", None, EmptyDict, NoEditData, None, None)
        IN
        IF ~Constructs(ServiceKwargs)
        THEN /\ Called("begin_generation", "ValidationError", TRUE, 0)
             /\ UNCHANGED <<session, subtopics>>
        ELSE /\ Called("begin_generation", "returned", TRUE, 0)
             /\ subtopics' = ainvoke_subtopics(s, subtopics, db)
             /\ session' = [session EXCEPT !.status = "generating",
                                           !.current_subtopic = 1]
    /\ UNCHANGED rest
    /\ UNCHANGED <<pc, state, input, visited, routed, path, invocations, genRuns,
                   subtopics0, chunks, emb>>

\* GenerationService.generate_next_subtopic
generate_next_subtopic ==
    /\ Quiet
    /\ session.status # "none"
    /\ \E llm \in ModelOutcomes, db \in DbOutcomes :
        LET next_index == (session.current_subtopic - 1) + 1
            s == GenerationState(session.topic_id, session.total_subtopics,
                                 next_index, "next", None, EmptyDict, NoEditData,
                                 None, None)
        IN
        IF next_index >= session.total_subtopics
        THEN /\ Called("generate_next_subtopic", "All subtopics have been generated",
                    FALSE, next_index)
             /\ UNCHANGED <<session, subtopics>>
        ELSE IF ~Constructs(ServiceKwargs)
        THEN /\ Called("generate_next_subtopic", "ValidationError", TRUE, next_index)
             /\ UNCHANGED <<session, subtopics>>
        ELSE /\ Called("generate_next_subtopic", "returned", TRUE, next_index)
             /\ subtopics' = ainvoke_subtopics(s, subtopics, db)
             /\ session' =
                 [session EXCEPT !.current_subtopic =
                     ainvoke_state(s, subtopics, llm, db).current_subtopic_index + 1]
    /\ UNCHANGED rest
    /\ UNCHANGED <<pc, state, input, visited, routed, path, invocations, genRuns,
                   subtopics0, chunks, emb>>

\* GenerationService.edit_subtopic
edit_subtopic ==
    /\ Quiet
    /\ session.status # "none"
    /\ \E llm \in ModelOutcomes, db \in DbOutcomes, content \in {"", "e1"} :
        LET s == GenerationState(session.topic_id, session.total_subtopics,
                                 session.current_subtopic - 1, "edit", None,
                                 EmptyDict, EditData("T", content), None, None)
        IN
        IF ~Constructs(ServiceKwargs \cup {"edit_data"})
        THEN /\ Called("edit_subtopic", "ValidationError", TRUE,
                    session.current_subtopic - 1)
             /\ UNCHANGED <<session, subtopics>>
        ELSE /\ Called("edit_subtopic", "returned", TRUE,
                    session.current_subtopic - 1)
             /\ subtopics' = ainvoke_subtopics(s, subtopics, db)
             /\ UNCHANGED session
    /\ UNCHANGED rest
    /\ UNCHANGED <<pc, state, input, visited, routed, path, invocations, genRuns,
                   subtopics0, chunks, emb>>

\* GenerationService.publish_subtopic
publish_subtopic ==
    /\ Quiet
    /\ session.status # "none"
    /\ \E llm \in ModelOutcomes, db \in DbOutcomes :
        LET s == GenerationState(session.topic_id, session.total_subtopics,
                                 session.current_subtopic - 1, "publish", None,
                                 EmptyDict, NoEditData, None, None)
        IN
        IF ~Constructs(ServiceKwargs)
        THEN /\ Called("publish_subtopic", "ValidationError", TRUE,
                    session.current_subtopic - 1)
             /\ UNCHANGED <<session, subtopics>>
        ELSE /\ Called("publish_subtopic", "returned", TRUE,
                    session.current_subtopic - 1)
             /\ subtopics' = ainvoke_subtopics(s, subtopics, db)
             /\ session' =
                 [session EXCEPT !.status =
                     IF session.current_subtopic >= session.total_subtopics
                     THEN "completed" ELSE @]
    /\ UNCHANGED rest
    /\ UNCHANGED <<pc, state, input, visited, routed, path, invocations, genRuns,
                   subtopics0, chunks, emb>>

\* Subtopic tables a thread may start with: empty, or holding a draft row of
\* the second subtopic left by an earlier session of the topic
ThreadTables == {<<>>, <<Subtopic(1, 2, "t2", "d2", FALSE, None)>>}

\* a topic planned with MaxSubtopics subtopics, its session as
\* GenerationService.start_generation leaves it, and no invocation yet
InitThread ==
    /\ RestIdle
    /\ pc = "idle"
    /\ state = GenerationState(1, MaxSubtopics, 0, None, None, EmptyDict,
                               NoEditData, None, None)
    /\ input = state
    /\ visited = <<>>
    /\ routed = "none"
    /\ path = "none"
    /\ invocations = 0
    /\ genRuns = [k \in DictKeys |-> 0]
    /\ subtopics \in ThreadTables
    /\ subtopics0 = subtopics
    /\ chunks = <<>>
    /\ session = [topic_id |-> 1, current_subtopic |-> 0,
                  total_subtopics |-> MaxSubtopics, status |-> "planning"]
    /\ svc = NoServiceCall
    /\ emb = NoEmbed

NextThread ==
    \/ StartGeneration
    \/ ContinueWithAction
    \/ Router
    \/ Generate
    \/ Edit
    \/ Consult
    \/ Publish
    \/ NextSubtopic
    \/ begin_generation
    \/ generate_next_subtopic
    \/ edit_subtopic
    \/ publish_subtopic

SpecThread == InitThread /\ [][NextThread]_vars

\* the rows of table subs for subtopic order o of topic t
RowsOf(subs, t, o) == {i \in 1..Len(subs) : subs[i].topic_id = t /\ subs[i].order = o}

\* C23: after the publish handler has run with content available for the
\* current index i, exactly one Subtopic row exists for (topic_id, i+1); it is
\* published, published_at is set, its title is subtopic_titles[i] and its
\* content is the published content, whether or not the row existed before
\* and after repeated publishes; every row of another order is unchanged.
C23_PublishEffect ==
    (HandlerRan /\ routed = "publish" /\ ContentToPublish(input) # Absent
        /\ state.error_message = None) =>
        LET i == input.current_subtopic_index
            mine == RowsOf(subtopics, input.topic_id, i + 1) IN
        /\ path = "success"
        /\ Cardinality(mine) = 1
        /\ \A r \in mine :
              subtopics[r] = Subtopic(input.topic_id, i + 1,
                                      PyGet(input.subtopic_titles, i),
                                      ContentToPublish(input), TRUE, Now)
        /\ state.current_content = ContentToPublish(input)
        /\ Len(subtopics) =
              Len(subtopics0)
              + (IF RowsOf(subtopics0, input.topic_id, i + 1) = {} THEN 1 ELSE 0)
        /\ \A r \in 1..Len(subtopics0) :
              r \notin mine => subtopics[r] = subtopics0[r]

\* a second successful publish of the same subtopic, next to a row of another
\* order
C23_Witness ==
    /\ HandlerRan
    /\ routed = "publish"
    /\ path = "success"
    /\ Len(state.published_subtopics) >= 2
    /\ RowsOf(subtopics0, input.topic_id, input.current_subtopic_index + 1) # {}
    /\ Len(subtopics) >= 2


\* C19: a generate_next_subtopic call on a session at subtopic k < total
\* succeeds and leaves current_subtopic = k + 1, the subtopic it generated;
\* at the last subtopic it fails with 'All subtopics have been generated'
\* and leaves the position alone.
C19_NextAdvancesByOne ==
    svc.op = "generate_next_subtopic" =>
        IF svc.at < session.total_subtopics
        THEN /\ svc.outcome = "returned"
             /\ session.current_subtopic = svc.at + 1
        ELSE /\ svc.outcome = "All subtopics have been generated"
             /\ session.current_subtopic = svc.at

C6_GenerateIdempotent ==
    \A k \in DictKeys :
        (genRuns[k] >= 2 /\ Quiet) =>
            Cardinality(SubtopicIds(subtopics, state.topic_id, k + 1)) = 1

\* C7 (scenario A): on a topic planned with three subtopics, begin_generation
\* leaves a Subtopic row of order 1 that is not published, and a
\* publish_subtopic that follows leaves that row published with published_at set.
C7_ScenarioA ==
    /\ svc.op = "begin_generation" =>
        \E i \in SubtopicIds(subtopics, session.topic_id, 1) :
            ~subtopics[i].is_published
    /\ (svc.op = "publish_subtopic" /\ svc.prev = "begin_generation") =>
        \E i \in SubtopicIds(subtopics, session.topic_id, 1) :
            subtopics[i].is_published /\ subtopics[i].published_at # None

----------------------------------------------------------------------------
(* The embedding client (src/app/services/embedding_service.py)            *)
(*                                                                         *)
(* A text is a record: id names its characters, len is its length, img the *)
(* number of characters taken by an inline base64 image payload (0 when it *)
(* holds none), words its number of whitespace-separated words, cues the   *)
(* lexical cues the chunk classifier finds in it, cut whether the          *)
(* truncation marker was appended.                                         *)

Text(id, len, img, words, cues) ==
    [id |-> id, len |-> len, img |-> img, words |-> words, cues |-> cues,
     cut |-> FALSE]

max_batch_size == 20
max_chars == 30000

\* _clean_text_for_embedding: an empty text is returned as it is; an image
\* payload is replaced by the 7 characters "[IMAGE]"; what is still longer
\* than max_chars is cut to max_chars and the 35-character marker
\* "\n\n[CONTENT TRUNCATED FOR EMBEDDING]" is appended
clean_text_for_embedding(t) ==
    LET stripped == IF t.img > 0 THEN (t.len - t.img) + 7 ELSE t.len IN
    IF t.len = 0 THEN t
    ELSE IF stripped > max_chars
    THEN [t EXCEPT !.len = max_chars + 35, !.img = 0, !.cut = TRUE]
    ELSE [t EXCEPT !.len = stripped, !.img = 0]

\* the vector the embedding model returns for a text it is sent
Vec(t) == [of |-> t]

\* client.embeddings.create(input=batch): one item per input, in input order
EmbeddingsCreate(batch) == [j \in 1..Len(batch) |-> Vec(batch[j])]

\* a batch that loses its last text
BatchAtDropsLast(cleaned, i) ==
    SubSeq(cleaned, i + 1, Min(i + max_batch_size - 1, Len(cleaned)))

\* cleaned_texts[i:i + self.max_batch_size]
BatchAt(cleaned, i) ==
    SubSeq(cleaned, i + 1, Min(i + max_batch_size, Len(cleaned)))

\* the texts the model draws inputs from: plain, empty, one with an image
\* payload, one longer than max_chars
TextPool ==
    <<Text("a", 60, 0, 9, {}),
      Text("b", 0, 0, 0, {}),
      Text("c", 5000, 4000, 12, {}),
      Text("d", 30001, 0, 4000, {})>>

\* n texts of the pool: text j is the pool entry at offset + j * stride
TextsOf(n, offset, stride) ==
    [j \in 1..n |-> TextPool[((offset + j * stride) % Len(TextPool)) + 1]]

\* A ContentChunk row (src/app/models/content_chunks.py)
ContentChunk(subtopic_id, chunk_type, content, embedding) ==
    [subtopic_id |-> subtopic_id, chunk_type |-> chunk_type, content |-> content,
     embedding |-> embedding, token_count |-> content.words]

\* embed_texts up to its loop: the empty input returns at once
embed_texts_begin ==
    /\ emb.pc = "called"
    /\ emb' = IF Len(emb.texts) = 0
              THEN [emb EXCEPT !.pc = "returned"]
              ELSE [emb EXCEPT !.pc = "loop",
                               !.cleaned = [j \in 1..Len(emb.texts) |->
                                   clean_text_for_embedding(emb.texts[j])]]
    /\ UNCHANGED rest
    /\ UNCHANGED <<pc, state, input, visited, routed, path, invocations, genRuns,
                   subtopics, subtopics0, chunks, session, svc>>

\* one iteration of the loop: _embed_batch answers
embed_batch_ok ==
    /\ emb.pc = "loop"
    /\ emb.i < Len(emb.cleaned)
    /\ LET batch == BatchAt(emb.cleaned, emb.i) IN
        emb' = [emb EXCEPT !.calls = Append(@, batch),
                           !.all_embeddings = @ \o EmbeddingsCreate(batch),
                           !.i = @ + max_batch_size,
                           !.pc = IF emb.i + max_batch_size < Len(emb.cleaned)
                                  THEN "loop" ELSE "returned"]
    /\ UNCHANGED rest
    /\ UNCHANGED <<pc, state, input, visited, routed, path, invocations, genRuns,
                   subtopics, subtopics0, chunks, session, svc>>

\* an _embed_batch that asks again for a batch that failed
embed_batch_retries ==
    /\ emb.pc = "loop"
    /\ emb.i < Len(emb.cleaned)
    /\ emb.failed < 2
    /\ emb' = [emb EXCEPT !.calls = Append(@, BatchAt(emb.cleaned, emb.i)),
                          !.failed = @ + 1]
    /\ UNCHANGED rest
    /\ UNCHANGED <<pc, state, input, visited, routed, path, invocations, genRuns,
                   subtopics, subtopics0, chunks, session, svc>>

\* one iteration of the loop: _embed_batch raises, and so does embed_texts
embed_batch_raises ==
    /\ emb.pc = "loop"
    /\ emb.i < Len(emb.cleaned)
    /\ emb' = [emb EXCEPT !.calls = Append(@, BatchAt(emb.cleaned, emb.i)),
                          !.failed = @ + 1,
                          !.pc = "raised"]
    /\ UNCHANGED rest
    /\ UNCHANGED <<pc, state, input, visited, routed, path, invocations, genRuns,
                   subtopics, subtopics0, chunks, session, svc>>

\* store_content_chunks after embed_texts returned: one ContentChunk row per
\* (chunk, embedding) pair, committed
store_content_chunks_returns ==
    /\ emb.pc = "returned"
    /\ chunks' = chunks \o
           [j \in 1..Min(Len(emb.texts), Len(emb.all_embeddings)) |->
               ContentChunk(1, "general", emb.texts[j], emb.all_embeddings[j])]
    /\ emb' = [emb EXCEPT !.pc = "stored"]
    /\ UNCHANGED rest
    /\ UNCHANGED <<pc, state, input, visited, routed, path, invocations, genRuns,
                   subtopics, subtopics0, session, svc>>

\* store_content_chunks when embed_texts raised: the exception leaves the
\* function at the await, before any row is added
store_content_chunks_raises ==
    /\ emb.pc = "raised"
    /\ emb' = [emb EXCEPT !.pc = "propagated"]
    /\ UNCHANGED rest
    /\ UNCHANGED <<pc, state, input, visited, routed, path, invocations, genRuns,
                   subtopics, subtopics0, chunks, session, svc>>

InitEmbed ==
    /\ RestIdle
    /\ \E n \in 0..MaxTexts, offset \in 0..3, stride \in 0..3 :
        emb = [pc |-> "called", texts |-> TextsOf(n, offset, stride),
               cleaned |-> <<>>, i |-> 0, all_embeddings |-> <<>>, calls |-> <<>>,
               failed |-> 0]
    /\ pc = "idle"
    /\ state = GenerationState(1, 1, 0, None, None, EmptyDict, NoEditData, None, None)
    /\ input = state
    /\ visited = <<>>
    /\ routed = "none"
    /\ path = "none"
    /\ invocations = 0
    /\ genRuns = [k \in DictKeys |-> 0]
    /\ subtopics = <<>>
    /\ subtopics0 = <<>>
    /\ chunks = <<>>
    /\ session = NoSession
    /\ svc = NoCall

NextEmbed ==
    \/ embed_texts_begin
    \/ embed_batch_ok
    \/ embed_batch_raises
    \/ store_content_chunks_returns
    \/ store_content_chunks_raises

SpecEmbed == InitEmbed /\ [][NextEmbed]_vars

\* the batch sizes of the calls issued so far
CallSizes == [c \in 1..Len(emb.calls) |-> Len(emb.calls[c])]

\* C9: for n input texts embed_texts issues ceil(n/20) batch calls of at most
\* 20 texts each, in input order (45 texts: 20, 20, 5), and returns n vectors,
\* the i-th being the embedding of the i-th input; for the empty input it
\* issues no call and returns the empty list.
C9_BatchedInOrder ==
    LET n == Len(emb.texts) IN
    /\ \A c \in 1..Len(emb.calls) :
        /\ Len(emb.calls[c]) >= 1
        /\ Len(emb.calls[c]) <= 20
        /\ \A j \in 1..Len(emb.calls[c]) :
            /\ (c - 1) * 20 + j <= n
            /\ emb.calls[c][j] = clean_text_for_embedding(emb.texts[(c - 1) * 20 + j])
    /\ emb.pc = "returned" =>
        /\ Len(emb.calls) = (n + 19) \div 20
        /\ Len(emb.all_embeddings) = n
        /\ \A j \in 1..n :
            emb.all_embeddings[j] = Vec(clean_text_for_embedding(emb.texts[j]))
        /\ n = 0 => (emb.calls = <<>> /\ emb.all_embeddings = <<>>)
        /\ n = 45 => CallSizes = <<20, 20, 5>>

\* C27: every text sent to the embedding model is at most max_chars (30000)
\* characters long, and a text that is within the ceiling and holds no image
\* payload is sent unchanged.
C27_CharacterCeiling ==
    \A c \in 1..Len(emb.calls) : \A j \in 1..Len(emb.calls[c]) :
        LET sent == emb.calls[c][j]
            text == emb.texts[(c - 1) * max_batch_size + j] IN
        /\ sent.len <= max_chars
        /\ (text.len <= max_chars /\ text.img = 0) => sent = text

\* C25: a failed batch call ends embed_texts: no further batch is requested,
\* the failed batch is not asked for again, nothing is returned and the
\* exception reaches the caller; store_content_chunks then persists no row.
C25_EmbeddingFailurePropagates ==
    emb.failed > 0 =>
        /\ emb.failed = 1
        /\ emb.pc \in {"raised", "propagated"}
        /\ ~ENABLED (embed_batch_ok \/ embed_batch_raises)
        /\ ~ENABLED store_content_chunks_returns
        /\ \A c \in 1..Len(emb.calls) :
              emb.calls[c] = BatchAt(emb.cleaned, (c - 1) * max_batch_size)
        /\ Len(emb.calls) = (emb.i \div max_batch_size) + 1
        /\ chunks = <<>>

C25_Witness ==
    /\ emb.pc = "propagated"
    /\ emb.failed = 1
    /\ Len(emb.calls) = 2
    /\ Len(emb.all_embeddings) = max_batch_size
    /\ chunks = <<>>

C9_Witness ==
    /\ emb.pc = "returned"
    /\ Len(emb.texts) = 45
    /\ CallSizes = <<20, 20, 5>>
    /\ emb.texts[1] # emb.texts[2]

----------------------------------------------------------------------------
(* The vector store and retriever (src/app/services/vector_service.py)     *)

\* embedding.cosine_distance(query_embedding), as a rank in the range [0, 2]
\* of a cosine distance: 0 for the same text, 1 for the same characters
\* cleaned differently, 2 otherwise
cosine_distance(e, q) ==
    IF e = q THEN 0 ELSE IF e.of.id = q.of.id THEN 1 ELSE 2

\* a filter that lets the subtopic being produced through
EligibleChunksUpToCurrent(subs, chs, topic_id, idx) ==
    {c \in 1..Len(chs) :
        /\ subs[chs[c].subtopic_id].topic_id = topic_id
        /\ subs[chs[c].subtopic_id].order <= idx + 1
        /\ subs[chs[c].subtopic_id].is_published}

\* the join and the where clause of find_relevant_context: the chunk ids whose
\* subtopic is of the topic, of an order below idx + 1, and published
EligibleChunks(subs, chs, topic_id, idx) ==
    {c \in 1..Len(chs) :
        /\ subs[chs[c].subtopic_id].topic_id = topic_id
        /\ subs[chs[c].subtopic_id].order < idx + 1
        /\ subs[chs[c].subtopic_id].is_published}

\* order_by(distance).limit(limit): any choice of the limit nearest chunks
\* (the database breaks ties as it likes)
NearestSets(E, chs, q, limit) ==
    {S \in SUBSET E :
        /\ Cardinality(S) = Min(limit, Cardinality(E))
        /\ \A a \in S, b \in E \ S :
            cosine_distance(chs[a].embedding, q) <= cosine_distance(chs[b].embedding, q)}

\* the chosen chunks in ascending distance (ties by id)
ByDistance(S, chs, q) ==
    CHOOSE seq \in [1..Cardinality(S) -> S] :
        /\ \A i, j \in 1..Cardinality(S) : i # j => seq[i] # seq[j]
        /\ \A i, j \in 1..Cardinality(S) : i < j =>
            LET di == cosine_distance(chs[seq[i]].embedding, q)
                dj == cosine_distance(chs[seq[j]].embedding, q) IN
            di < dj \/ (di = dj /\ seq[i] < seq[j])

\* the dictionaries find_relevant_context returns for the chosen chunks
\* (chunk_id records which row each came from)
RelevantChunks(S, subs, chs, q) ==
    [i \in 1..Cardinality(S) |->
        LET c == ByDistance(S, chs, q)[i] IN
        [chunk_id |-> c,
         content |-> chs[c].content,
         type |-> chs[c].chunk_type,
         subtopic_title |-> subs[chs[c].subtopic_id].title,
         subtopic_order |-> subs[chs[c].subtopic_id].order,
         similarity_score |-> 1 - cosine_distance(chs[c].embedding, q)]]

\* get_previous_subtopic_content: the content of the published subtopic of
\* order = current index, None when there is none or the index is 0
get_previous_subtopic_content(subs, topic_id, idx) ==
    LET ids == {i \in SubtopicIds(subs, topic_id, idx) : subs[i].is_published} IN
    IF idx = 0 \/ ids = {} THEN None ELSE subs[SetMin(ids)].content

\* find_relevant_context and get_previous_subtopic_content for the query in
\* svc; embedding the query text may raise
find_relevant_context ==
    /\ svc.op = "find_relevant_context"
    /\ svc.outcome = "pending"
    /\ \E embedded \in BOOLEAN :
        \E S \in NearestSets(
                    EligibleChunks(subtopics, chunks, svc.topic_id, svc.idx),
                    chunks, Vec(clean_text_for_embedding(svc.query)), svc.limit) :
            svc' = IF embedded
                   THEN [svc EXCEPT
                           !.outcome = "returned",
                           !.result = RelevantChunks(S, subtopics, chunks,
                                          Vec(clean_text_for_embedding(svc.query))),
                           !.previous = get_previous_subtopic_content(
                                          subtopics, svc.topic_id, svc.idx)]
                   ELSE [svc EXCEPT !.outcome = "raised"]
    /\ UNCHANGED rest
    /\ UNCHANGED <<pc, state, input, visited, routed, path, invocations, genRuns,
                   subtopics, subtopics0, chunks, session, emb>>

\* the stores the retriever is asked about: StoreSubtopics subtopics, each
\* of the queried topic 1 with any order and publication state or a published
\* subtopic of topic 2; one chunk each and one more chunk of any of them
StoreRows ==
    {Subtopic(1, o, "t", "body", pub, IF pub THEN Now ELSE None) :
        o \in 1..MaxSubtopics, pub \in BOOLEAN}
    \cup {Subtopic(2, 1, "u", "other", TRUE, Now)}

StoredChunk(sid, k) ==
    ContentChunk(sid, "concept", TextPool[k], Vec(clean_text_for_embedding(TextPool[k])))

\* the pool texts chunks are made of (the empty text is never a chunk)
ChunkTexts == <<1, 3, 4>>

InitRetrieval ==
    /\ RestIdle
    /\ subtopics \in [1..StoreSubtopics -> StoreRows]
    /\ \E owner \in 1..StoreSubtopics :
        chunks = [j \in 1..(StoreSubtopics + 1) |->
                    IF j <= StoreSubtopics
                    THEN StoredChunk(j, ChunkTexts[((j - 1) % 3) + 1])
                    ELSE StoredChunk(owner, 1)]
    /\ \E idx \in 0..(MaxSubtopics - 1), limit \in {1, 7} :
        svc = [op |-> "find_relevant_context", outcome |-> "pending", prev |-> "none",
               topic_id |-> 1, idx |-> idx, limit |-> limit, query |-> TextPool[1],
               result |-> <<>>, previous |-> None]
    /\ subtopics0 = subtopics
    /\ pc = "idle"
    /\ state = GenerationState(1, 1, 0, None, None, EmptyDict, NoEditData, None, None)
    /\ input = state
    /\ visited = <<>>
    /\ routed = "none"
    /\ path = "none"
    /\ invocations = 0
    /\ genRuns = [k \in DictKeys |-> 0]
    /\ session = NoSession
    /\ emb = NoEmbed

NextRetrieval == find_relevant_context

SpecRetrieval == InitRetrieval /\ [][NextRetrieval]_vars

\* the subtopic that owns the chunk a returned dictionary came from
OwnerOf(r) == subtopics[chunks[r.chunk_id].subtopic_id]

\* C5: find_relevant_context returns only chunks whose subtopic is of the
\* queried topic, has order < idx + 1 and is published: never a chunk of the
\* subtopic being produced, of a later one, of an unpublished one or of
\* another topic; the previous content it is combined with is that of a
\* published subtopic of the topic, of order idx.
C5_RetrievalIsolation ==
    svc.outcome = "returned" =>
        /\ \A i \in 1..Len(svc.result) :
            /\ OwnerOf(svc.result[i]).topic_id = svc.topic_id
            /\ OwnerOf(svc.result[i]).order < svc.idx + 1
            /\ OwnerOf(svc.result[i]).order # svc.idx + 1
            /\ OwnerOf(svc.result[i]).is_published
            /\ svc.result[i].content = chunks[svc.result[i].chunk_id].content
        /\ Len(svc.result) <= svc.limit
        /\ svc.previous # None =>
            \E s \in 1..Len(subtopics) :
                /\ subtopics[s].topic_id = svc.topic_id
                /\ subtopics[s].order = svc.idx
                /\ subtopics[s].is_published
                /\ subtopics[s].content = svc.previous

C5_Witness ==
    /\ svc.outcome = "returned"
    /\ Len(svc.result) >= 1
    /\ \E c \in 1..Len(chunks) :
        /\ subtopics[chunks[c].subtopic_id].topic_id = svc.topic_id
        /\ subtopics[chunks[c].subtopic_id].order = svc.idx + 1
        /\ subtopics[chunks[c].subtopic_id].is_published
    /\ \E c \in 1..Len(chunks) :
        /\ subtopics[chunks[c].subtopic_id].topic_id = svc.topic_id
        /\ subtopics[chunks[c].subtopic_id].order <= svc.idx
        /\ ~subtopics[chunks[c].subtopic_id].is_published

----------------------------------------------------------------------------
(* The chunking engine (src/app/services/chunking_service.py) and the      *)
(* direct edit endpoint (src/app/api/generation.py)                        *)
(*                                                                         *)
(* A content is the sequence of the texts between its blank lines.         *)

\* _identify_chunk_type: the first cue found, in the classifier's order
identify_chunk_type(p) ==
    IF "definition" \in p.cues THEN "definition"
    ELSE IF "example" \in p.cues THEN "example"
    ELSE IF "procedure" \in p.cues THEN "procedure"
    ELSE IF "application" \in p.cues THEN "application"
    ELSE "concept"

Chunk(type, content, subtopic_title) ==
    [type |-> type, content |-> content, subtopic_title |-> subtopic_title]

\* the loop of chunk_content: blank paragraphs are skipped, a paragraph of
\* more than 50 characters becomes a chunk of its type
RECURSIVE ParagraphChunks(_, _)
ParagraphChunks(content, title) ==
    IF content = <<>> THEN <<>>
    ELSE LET p == Head(content) IN
         (IF p.len > 50 THEN <<Chunk(identify_chunk_type(p), p, title)>> ELSE <<>>)
         \o ParagraphChunks(Tail(content), title)

\* the synthetic chunk "Core concept: <title>"
CoreConcept(title) ==
    Chunk("concept", Text("Core concept: " \o title, 16, 0, 3, {}), title)

\* chunk_content without the fallback concept chunk
chunk_content_no_fallback(content, title) == ParagraphChunks(content, title)

\* chunk_content: the paragraph chunks, and the synthetic concept chunk when
\* none of them is of type concept
chunk_content(content, title) ==
    LET cs == ParagraphChunks(content, title) IN
    IF \E i \in 1..Len(cs) : cs[i].type = "concept" THEN cs
    ELSE Append(cs, CoreConcept(title))

\* store_content_chunks: one row per chunk, with the embedding of its content
store_content_chunks(chs, subtopic_id, cs) ==
    chs \o [i \in 1..Len(cs) |->
              ContentChunk(subtopic_id, cs[i].type, cs[i].content,
                           Vec(clean_text_for_embedding(cs[i].content)))]

\* db.query(ContentChunk).filter(subtopic_id == id).delete()
delete_chunks(chs, subtopic_id) ==
    LET Kept(r) == r.subtopic_id # subtopic_id IN SelectSeq(chs, Kept)

\* an edit that stores the new chunks without deleting the old ones
rechunk_without_delete(chs, subtopic_id, content, title) ==
    store_content_chunks(chs, subtopic_id, chunk_content(content, title))

\* the re-processing of edit_subtopic_content: delete, re-chunk, re-embed
rechunk(chs, subtopic_id, content, title) ==
    store_content_chunks(delete_chunks(chs, subtopic_id), subtopic_id,
                         chunk_content(content, title))

\* paragraphs an edit request is made of: a definition with an example, a
\* plain paragraph of 51 characters, one of 50, an application, a blank one
Paragraphs ==
    <<Text("p1", 60, 0, 9, {"definition", "example"}),
      Text("p2", 51, 0, 8, {}),
      Text("p3", 50, 0, 7, {}),
      Text("p4", 80, 0, 11, {"application"}),
      Text("", 0, 0, 0, {}),
      Text("p6", 30, 0, 5, {"definition"}),
      Text("p7", 51, 0, 8, {"procedure", "application"})>>

EditContents ==
    {<<>>, <<Paragraphs[1]>>, <<Paragraphs[2], Paragraphs[3]>>,
     <<Paragraphs[1], Paragraphs[4]>>, <<Paragraphs[3], Paragraphs[5]>>}

\* PUT /generation/{session_id}/edit: subtopic_order 0 stands for an omitted
\* (or zero) query parameter; the embedding call may raise, and then nothing
\* of the request is committed
edit_subtopic_content ==
    /\ svc.count < MaxEdits
    /\ \E subtopic_order \in 0..MaxSubtopics, title \in {"T1", "T2"},
          content \in EditContents, embedded \in BOOLEAN :
        LET target_subtopic_order ==
                IF subtopic_order # 0 THEN subtopic_order
                ELSE session.current_subtopic
            target == FirstSubtopic(subtopics, session.topic_id, target_subtopic_order)
            call == [op |-> "edit_subtopic_content", prev |-> svc.op,
                     count |-> svc.count + 1, target |-> target, title |-> title,
                     content |-> content, before |-> chunks]
        IN
        IF target = 0
        THEN /\ svc' = [outcome |-> "not found"] @@ call
             /\ UNCHANGED <<subtopics, chunks>>
        ELSE IF ~embedded
        THEN /\ svc' = [outcome |-> "embedding failed"] @@ call
             /\ UNCHANGED <<subtopics, chunks>>
        ELSE /\ svc' = [outcome |-> "ok"] @@ call
             /\ subtopics' = [subtopics EXCEPT ![target] =
                                [@ EXCEPT !.title = title, !.content = content]]
             /\ chunks' = rechunk(chunks, target, content, title)
    /\ UNCHANGED rest
    /\ UNCHANGED <<pc, state, input, visited, routed, path, invocations, genRuns,
                   subtopics0, session, emb>>

\* the drafts of the first two subtopics of topic 1 and a subtopic of topic 2,
\* each with the chunks of its content; the session is at subtopic 0, 1 or 2
InitEditTables ==
    /\ subtopics = <<Subtopic(1, 1, "t1", <<Paragraphs[1]>>, TRUE, Now),
                     Subtopic(2, 1, "u1", <<Paragraphs[4]>>, TRUE, Now),
                     Subtopic(1, 2, "t2", <<Paragraphs[2]>>, FALSE, None)>>
    /\ chunks = rechunk(rechunk(rechunk(<<>>, 1, <<Paragraphs[1]>>, "t1"),
                                2, <<Paragraphs[4]>>, "u1"),
                        3, <<Paragraphs[2]>>, "t2")
    /\ \E cur \in 0..2 :
        session = [topic_id |-> 1, current_subtopic |-> cur,
                   total_subtopics |-> MaxSubtopics, status |-> "generating"]
    /\ svc = [op |-> "none", outcome |-> "none", prev |-> "none", count |-> 0,
              target |-> 0, title |-> "", content |-> <<>>, before |-> <<>>]
    /\ subtopics0 = subtopics
    /\ pc = "idle"
    /\ state = GenerationState(1, 1, 0, None, None, EmptyDict, NoEditData, None, None)
    /\ input = state
    /\ visited = <<>>
    /\ routed = "none"
    /\ path = "none"
    /\ invocations = 0
    /\ genRuns = [k \in DictKeys |-> 0]
    /\ emb = NoEmbed

InitEdit ==
    /\ RestIdle
    /\ InitEditTables

NextEdit == edit_subtopic_content

SpecEdit == InitEdit /\ [][NextEdit]_vars

\* the rows of a chunk table that belong, or do not belong, to a subtopic
ChunksOf(chs, subtopic_id) ==
    LET Mine(r) == r.subtopic_id = subtopic_id IN SelectSeq(chs, Mine)
ChunksNotOf(chs, subtopic_id) ==
    LET Other(r) == r.subtopic_id # subtopic_id IN SelectSeq(chs, Other)

\* C10 (scenario D): after a successful edit the ContentChunk rows of the
\* edited subtopic are exactly the chunks of the new content, each once (no
\* earlier row of the subtopic is left, no chunk set is duplicated, also after
\* repeated edits), and the rows of other subtopics are unchanged.
C10_EditReplacesChunks ==
    (svc.op = "edit_subtopic_content" /\ svc.outcome = "ok") =>
        LET mine == ChunksOf(chunks, svc.target)
            expected == chunk_content(svc.content, svc.title) IN
        /\ Len(mine) = Len(expected)
        /\ \A i \in 1..Len(mine) :
            /\ mine[i].chunk_type = expected[i].type
            /\ mine[i].content = expected[i].content
            /\ mine[i].embedding = Vec(clean_text_for_embedding(expected[i].content))
        /\ ChunksNotOf(chunks, svc.target) = ChunksNotOf(svc.before, svc.target)
        /\ subtopics[svc.target].content = svc.content

C10_Witness ==
    /\ svc.op = "edit_subtopic_content"
    /\ svc.outcome = "ok"
    /\ svc.count = 2
    /\ svc.prev = "edit_subtopic_content"
    /\ Len(ChunksOf(svc.before, svc.target)) >= 1
    /\ ChunksOf(svc.before, svc.target) # ChunksOf(chunks, svc.target)
    /\ Len(ChunksNotOf(chunks, svc.target)) >= 2

----------------------------------------------------------------------------
(* chunk_content on its own: every content of up to MaxParagraphs          *)
(* paragraphs, every title                                                 *)

RECURSIVE ContentsOfLen(_)
ContentsOfLen(n) ==
    IF n = 0 THEN {<<>>}
    ELSE {Append(c, Paragraphs[k]) : c \in ContentsOfLen(n - 1),
                                     k \in 1..Len(Paragraphs)}

ChunkInputs == UNION {ContentsOfLen(n) : n \in 0..MaxParagraphs}

chunk_content_call ==
    /\ chunker.pc = "called"
    /\ chunker' = [chunker EXCEPT !.pc = "returned",
                                  !.chunks = chunk_content(chunker.content, chunker.title)]
    /\ UNCHANGED <<core, ckpt, run, conv, overlap>>

InitChunk ==
    /\ ckpt = NoCheckpoints
    /\ overlap = NoOverlap
    /\ run = NoRun
    /\ conv = NoConversation
    /\ \E content \in ChunkInputs, title \in {"T1", "T2"} :
        chunker = [pc |-> "called", content |-> content, title |-> title,
                   chunks |-> <<>>]
    /\ subtopics = <<>>
    /\ chunks = <<>>
    /\ session = NoSession
    /\ svc = NoCall
    /\ subtopics0 = subtopics
    /\ pc = "idle"
    /\ state = GenerationState(1, 1, 0, None, None, EmptyDict, NoEditData, None, None)
    /\ input = state
    /\ visited = <<>>
    /\ routed = "none"
    /\ path = "none"
    /\ invocations = 0
    /\ genRuns = [k \in DictKeys |-> 0]
    /\ emb = NoEmbed

NextChunk == chunk_content_call

SpecChunk == InitChunk /\ [][NextChunk]_vars

\* the paragraphs of the input that are long enough to be kept
Retained(content) ==
    LET Long(p) == p.len > 50 IN SelectSeq(content, Long)

\* C11: chunk_content returns at least one chunk and at least one concept
\* chunk; the chunk "Core concept: <title>" is present exactly once (as the
\* last chunk) when no retained paragraph is a concept and absent when one
\* is; the other chunks are the retained paragraphs in order, so a paragraph
\* of 50 characters or fewer is never in the output.
C11_ChunkingComplete ==
    chunker.pc = "returned" =>
        LET out == chunker.chunks
            kept == Retained(chunker.content)
            synthetic == CoreConcept(chunker.title)
            hasConcept == \E j \in 1..Len(kept) : identify_chunk_type(kept[j]) = "concept"
        IN
        /\ Len(out) >= 1
        /\ \E i \in 1..Len(out) : out[i].type = "concept"
        /\ \A i \in 1..Len(kept) :
            /\ out[i].content = kept[i]
            /\ out[i].type = identify_chunk_type(kept[i])
        /\ hasConcept => Len(out) = Len(kept)
        /\ ~hasConcept => (Len(out) = Len(kept) + 1 /\ out[Len(out)] = synthetic)
        /\ \A i \in 1..Len(out), j \in 1..Len(chunker.content) :
            chunker.content[j].len <= 50 => out[i].content # chunker.content[j]

C11_Witness ==
    /\ chunker.pc = "returned"
    /\ Len(chunker.content) = 3
    /\ \E j \in 1..3 : chunker.content[j].len = 50
    /\ \E j \in 1..3 : chunker.content[j].len > 50
    /\ Len(chunker.chunks) = Len(Retained(chunker.content)) + 1
    /\ chunker.chunks[Len(chunker.chunks)] = CoreConcept(chunker.title)

----------------------------------------------------------------------------
(* The checkpoint store (src/app/langgraph/checkpointer.py)                *)
(*                                                                         *)
(* The checkpoints table is a sequence of rows with primary key            *)
(* (thread_id, checkpoint_id); created_at is read from a clock that        *)
(* advances with every write.  Checkpoint ids are numbers, 0 standing for  *)
(* an id that is not in the config.                                        *)

CheckpointIds == 1..MaxCheckpointIds
TaskIds == {MaxCheckpointIds + 1}

\* the snapshots a caller saves; "d1" holds a value json cannot encode
Snapshots == {"s1", "d1"}

\* json.dumps(x, default=str): what json cannot encode becomes its str()
json_dumps(x) == IF x = "d1" THEN "str(d1)" ELSE x
json_loads(j) == j

StateData(x) == [kind |-> "state", v |-> json_dumps(x)]
WritesData(task_id) == [kind |-> "writes", v |-> "w"]
StateMetadata == [task_id |-> 0, type |-> "m1"]
WritesMetadata(task_id) == [task_id |-> task_id, type |-> "writes"]

CheckpointRow(thread_id, checkpoint_id, checkpoint_data, metadata, created_at) ==
    [thread_id |-> thread_id, checkpoint_id |-> checkpoint_id,
     checkpoint_data |-> checkpoint_data, metadata |-> metadata,
     created_at |-> created_at]

\* the position of the row with the primary key, 0 when there is none
RowAt(rows, thread_id, checkpoint_id) ==
    LET hit == {i \in 1..Len(rows) : /\ rows[i].thread_id = thread_id
                                     /\ rows[i].checkpoint_id = checkpoint_id} IN
    IF hit = {} THEN 0 ELSE CHOOSE i \in hit : TRUE

SetMax(S) == CHOOSE x \in S : \A y \in S : y <= x

\* f"{timestamp_ms}_{uuid}": an id no row and no caller uses
GeneratedId(rows) ==
    1 + SetMax(CheckpointIds \cup TaskIds \cup {rows[i].checkpoint_id : i \in 1..Len(rows)})

\* INSERT ... ON CONFLICT DO UPDATE SET checkpoint_data, metadata, created_at
aput_rows(rows, thread_id, checkpoint_id, data, metadata, now) ==
    LET i == RowAt(rows, thread_id, checkpoint_id) IN
    IF i = 0
    THEN Append(rows, CheckpointRow(thread_id, checkpoint_id, data, metadata, now))
    ELSE [rows EXCEPT ![i] = [@ EXCEPT !.checkpoint_data = data,
                                       !.metadata = metadata,
                                       !.created_at = now]]

\* INSERT ... ON CONFLICT DO UPDATE SET metadata, created_at
aput_writes_rows(rows, thread_id, checkpoint_id, data, metadata, now) ==
    LET i == RowAt(rows, thread_id, checkpoint_id) IN
    IF i = 0
    THEN Append(rows, CheckpointRow(thread_id, checkpoint_id, data, metadata, now))
    ELSE [rows EXCEPT ![i] = [@ EXCEPT !.metadata = metadata,
                                       !.created_at = now]]

\* a delete that empties the whole table
delete_rows_of_all(rows, thread_id) == <<>>

\* DELETE FROM checkpoints WHERE thread_id = $1
delete_rows(rows, thread_id) ==
    LET Other(r) == r.thread_id # thread_id IN SelectSeq(rows, Other)

CheckpointTuple(r) ==
    [checkpoint_id |-> r.checkpoint_id,
     checkpoint |-> json_loads(r.checkpoint_data),
     metadata |-> json_loads(r.metadata)]

\* what aget_tuple returns for None
NoTuple ==
    [checkpoint_id |-> 0, checkpoint |-> [kind |-> "none", v |-> ""],
     metadata |-> [task_id |-> 0, type |-> "none"]]

\* ORDER BY created_at DESC over a set of row positions
RECURSIVE NewestFirst(_, _)
NewestFirst(rows, S) ==
    IF S = {} THEN <<>>
    ELSE LET i == CHOOSE x \in S : \A y \in S : rows[y].created_at <= rows[x].created_at
         IN <<rows[i]>> \o NewestFirst(rows, S \ {i})

\* aget_tuple: the row of the thread with the latest created_at
aget_tuple(rows, thread_id) ==
    LET mine == {i \in 1..Len(rows) : rows[i].thread_id = thread_id} IN
    IF thread_id = "" \/ mine = {} THEN NoTuple
    ELSE CheckpointTuple(NewestFirst(rows, mine)[1])

\* alist: before = 0 and limit = 0 stand for None (and a limit of 0 is not
\* applied either); ids are compared as the store compares them
alist(rows, thread_id, before, limit) ==
    LET mine == {i \in 1..Len(rows) :
                    /\ rows[i].thread_id = thread_id
                    /\ (before # 0 => rows[i].checkpoint_id < before)}
        sorted == NewestFirst(rows, mine)
        cut == IF limit # 0 THEN SubSeq(sorted, 1, Min(limit, Len(sorted))) ELSE sorted
    IN IF thread_id = "" THEN <<>>
       ELSE [k \in 1..Len(cut) |-> CheckpointTuple(cut[k])]

CkCall(op, thread_id, result, tuples) ==
    [op |-> op, thread_id |-> thread_id, result |-> result, tuples |-> tuples,
     before |-> ckpt.rows]

\* aput: the pool may fail, an empty thread_id raises ValueError
aput ==
    /\ ckpt.now < MaxWrites
    /\ \E thread_id \in Threads \cup {""}, cid \in {0} \cup CheckpointIds,
          checkpoint \in Snapshots, db \in DbOutcomes :
        IF db = "error" \/ thread_id = ""
        THEN ckpt' = [ckpt EXCEPT !.call = CkCall("aput", thread_id, Raise, <<>>)]
        ELSE LET checkpoint_id == IF cid = 0 THEN GeneratedId(ckpt.rows) ELSE cid IN
             ckpt' = [ckpt EXCEPT
                 !.rows = aput_rows(@, thread_id, checkpoint_id, StateData(checkpoint),
                                    StateMetadata, ckpt.now + 1),
                 !.now = @ + 1,
                 !.lastPut[thread_id] = <<[checkpoint |-> checkpoint,
                                           metadata |-> StateMetadata]>>,
                 !.live[thread_id] = @ + 1,
                 !.call = CkCall("aput", thread_id, "ok", <<>>)]
    /\ UNCHANGED <<core, chunker, run, conv, overlap>>

\* aput_writes: the checkpoint id of the config, the task id without one
aput_writes ==
    /\ ckpt.now < MaxWrites
    /\ \E thread_id \in Threads \cup {""}, cid \in {0} \cup CheckpointIds,
          task_id \in TaskIds, db \in DbOutcomes :
        IF db = "error" \/ thread_id = ""
        THEN ckpt' = [ckpt EXCEPT !.call = CkCall("aput_writes", thread_id, Raise, <<>>)]
        ELSE LET checkpoint_id == IF cid = 0 THEN task_id ELSE cid IN
             ckpt' = [ckpt EXCEPT
                 !.rows = aput_writes_rows(@, thread_id, checkpoint_id,
                                           WritesData(task_id), WritesMetadata(task_id),
                                           ckpt.now + 1),
                 !.now = @ + 1,
                 !.live[thread_id] = @ + 1,
                 !.call = CkCall("aput_writes", thread_id, "ok", <<>>)]
    /\ UNCHANGED <<core, chunker, run, conv, overlap>>

\* delete_thread: True after the DELETE, False when anything raised
delete_thread ==
    /\ \E thread_id \in Threads, db \in DbOutcomes :
        IF db = "error"
        THEN ckpt' = [ckpt EXCEPT !.call = CkCall("delete_thread", thread_id, "False", <<>>)]
        ELSE ckpt' = [ckpt EXCEPT
                 !.rows = delete_rows(@, thread_id),
                 !.lastPut[thread_id] = <<>>,
                 !.live[thread_id] = 0,
                 !.call = CkCall("delete_thread", thread_id, "True", <<>>)]
    /\ UNCHANGED <<core, chunker, run, conv, overlap>>

aget_tuple_call ==
    /\ \E thread_id \in Threads \cup {""} :
        ckpt' = [ckpt EXCEPT !.call =
                    CkCall("aget_tuple", thread_id, "ok",
                           <<aget_tuple(ckpt.rows, thread_id)>>)]
    /\ UNCHANGED <<core, chunker, run, conv, overlap>>

alist_call ==
    /\ \E thread_id \in Threads, before \in {0, MaxCheckpointIds}, limit \in 0..1 :
        ckpt' = [ckpt EXCEPT !.call =
                    CkCall("alist", thread_id, "ok",
                           alist(ckpt.rows, thread_id, before, limit))]
    /\ UNCHANGED <<core, chunker, run, conv, overlap>>

InitCheckpoint ==
    /\ ckpt = NoCheckpoints
    /\ overlap = NoOverlap
    /\ run = NoRun
    /\ conv = NoConversation
    /\ chunker = NoChunker
    /\ subtopics = <<>>
    /\ chunks = <<>>
    /\ session = NoSession
    /\ svc = NoCall
    /\ subtopics0 = subtopics
    /\ pc = "idle"
    /\ state = GenerationState(1, 1, 0, None, None, EmptyDict, NoEditData, None, None)
    /\ input = state
    /\ visited = <<>>
    /\ routed = "none"
    /\ path = "none"
    /\ invocations = 0
    /\ genRuns = [k \in DictKeys |-> 0]
    /\ emb = NoEmbed

NextCheckpoint ==
    \/ aput
    \/ aput_writes
    \/ delete_thread
    \/ aget_tuple_call
    \/ alist_call

SpecCheckpoint == InitCheckpoint /\ [][NextCheckpoint]_vars

\* C12: a checkpoint write is append-only and idempotent: after aput or
\* aput_writes every row that was stored before the call is still stored with
\* the same data, metadata and created_at, and a put on a key that was already
\* stored leaves the whole table unchanged.
C12_AppendOnlyIdempotent ==
    (ckpt.call.op \in {"aput", "aput_writes"} /\ ckpt.call.result = "ok") =>
        /\ \A i \in 1..Len(ckpt.call.before) : ckpt.rows[i] = ckpt.call.before[i]
        /\ Len(ckpt.rows) \in {Len(ckpt.call.before), Len(ckpt.call.before) + 1}

\* C13: the current checkpoint of a thread is the snapshot and metadata of
\* the most recent aput for the thread (none when nothing has been put since
\* the thread was last deleted); a row of aput_writes is never the current one.
C13_CurrentIsLatestPut ==
    \A th \in Threads :
        LET cur == aget_tuple(ckpt.rows, th) IN
        /\ cur.checkpoint.kind # "writes"
        /\ IF ckpt.lastPut[th] = <<>> THEN cur = NoTuple
           ELSE /\ cur.checkpoint = json_loads(StateData(ckpt.lastPut[th][1].checkpoint))
                /\ cur.metadata = ckpt.lastPut[th][1].metadata

\* C14: delete_thread(t) returning True has removed exactly the rows of t;
\* returning False it has left the table unchanged; and while nothing has
\* been put for t since, aget_tuple(t) is None and alist(t) is empty for
\* every before and limit.
C14_DeleteThread ==
    /\ (ckpt.call.op = "delete_thread" /\ ckpt.call.result = "True") =>
          /\ ckpt.rows = delete_rows(ckpt.call.before, ckpt.call.thread_id)
          /\ \A i \in 1..Len(ckpt.rows) : ckpt.rows[i].thread_id # ckpt.call.thread_id
          /\ \A i \in 1..Len(ckpt.call.before) :
                ckpt.call.before[i].thread_id # ckpt.call.thread_id =>
                    \E j \in 1..Len(ckpt.rows) : ckpt.rows[j] = ckpt.call.before[i]
    /\ (ckpt.call.op = "delete_thread" /\ ckpt.call.result = "False") =>
          ckpt.rows = ckpt.call.before
    /\ \A th \in Threads :
          ckpt.live[th] = 0 =>
              /\ aget_tuple(ckpt.rows, th) = NoTuple
              /\ \A before \in 0..(MaxCheckpointIds + 1), limit \in 0..2 :
                    alist(ckpt.rows, th, before, limit) = <<>>
    /\ (ckpt.call.op \in {"aget_tuple", "alist"} /\ ckpt.call.thread_id \in Threads) =>
          (ckpt.live[ckpt.call.thread_id] = 0 =>
              ckpt.call.tuples \in {<<>>, <<NoTuple>>})

C14_Witness ==
    /\ ckpt.call.op = "delete_thread"
    /\ ckpt.call.result = "True"
    /\ \E i \in 1..Len(ckpt.call.before) :
          ckpt.call.before[i].thread_id = ckpt.call.thread_id
    /\ Len(ckpt.rows) >= 1
    /\ Len(ckpt.rows) < Len(ckpt.call.before)

----------------------------------------------------------------------------
(* run_workflow (src/app/langgraph/workflow.py): the retry loop            *)
(*                                                                         *)
(* An exception is what raised it (type), where (at), and which of the     *)
(* phrases run_workflow looks for are in str(e).                           *)

max_retries == 3

ExceptionTypes == {"KeyError", "GraphRecursionError", "ConnectionError", "Other"}

\* the exceptions an attempt can end with; the message of a recursion error
\* names the recursion limit. An exception leaves _compile_workflow_if_needed
\* ("compile"), ainvoke before the routed handler has run ("ainvoke"), or
\* ainvoke after it has returned, in the checkpoint write ("checkpoint")
Exceptions ==
    {e \in [type : ExceptionTypes, at : {"compile", "ainvoke", "checkpoint"},
            keyerror : BOOLEAN, recursion : BOOLEAN, connection : BOOLEAN] :
        /\ e.type = "GraphRecursionError" => (e.recursion /\ e.at = "ainvoke")
        /\ e.type = "KeyError" => e.at = "ainvoke"}

\* "KeyError:" in error_msg
IsKeyError(e) == e.keyerror
\* "recursion limit" in error_msg.lower()
IsRecursion(e) == e.recursion
\* any(conn_error in error_msg.lower() for conn_error in connection_errors)
IsConnection(e) == e.connection

\* a retry test that lets the third failure through
MayRetryOnceMore(retry_count) == retry_count <= max_retries

\* if retry_count < max_retries (inside the connection branch)
MayRetry(retry_count) == retry_count < max_retries

\* the actions a run_workflow call is made with
RunActions == {"generate", "publish", None}

\* the handler executions of one ainvoke that gets past its handler: one when
\* the router sends the state to a handler, none when it sends it to END
HandlerExecutions(a) ==
    IF route_action(router_node([state EXCEPT !.action = a])) \in Handlers
    THEN 1 ELSE 0

run_workflow_call ==
    /\ run.pc \in {"idle", "returned", "raised"}
    /\ run.calls < MaxCalls
    /\ \E a \in RunActions :
        run' = [run EXCEPT !.pc = "attempt", !.retry_count = 0, !.calls = @ + 1,
                           !.ainvokes = 0, !.errors = <<>>, !.delays = <<>>,
                           !.report = "none", !.action = a, !.handler_runs = 0]
    /\ UNCHANGED <<core, chunker, ckpt, conv, overlap>>

\* an attempt that compiles, invokes and returns GenerationState(**result)
attempt_returns ==
    /\ run.pc = "attempt"
    /\ run' = [run EXCEPT !.pc = "returned", !.compiled = TRUE,
                          !.checkpointer = "set", !.ainvokes = @ + 1,
                          !.handler_runs = @ + HandlerExecutions(run.action),
                          !.report = "state"]
    /\ UNCHANGED <<core, chunker, ckpt, conv, overlap>>

\* an attempt that raises, and the whole except branch
attempt_raises ==
    /\ run.pc = "attempt"
    /\ \E e \in Exceptions :
        LET retry_count == run.retry_count + 1
            tried == [run EXCEPT !.retry_count = retry_count,
                                 !.errors = Append(@, e),
                                 !.compiled = (e.at # "compile"),
                                 !.checkpointer = "set",
                                 !.ainvokes = IF e.at # "compile" THEN @ + 1 ELSE @,
                                 !.handler_runs =
                                     IF e.at = "checkpoint"
                                     THEN @ + HandlerExecutions(run.action) ELSE @]
        IN
        run' =
            IF IsKeyError(e)
            THEN [tried EXCEPT !.pc = "raised", !.report = "configuration error"]
            ELSE IF IsRecursion(e)
            THEN [tried EXCEPT !.pc = "raised", !.report = "infinite loop"]
            ELSE IF IsConnection(e)
            THEN IF MayRetry(retry_count)
                 THEN [tried EXCEPT !.pc = "sleeping", !.compiled = FALSE,
                                    !.checkpointer = "None",
                                    !.delays = Append(@, 2 ^ retry_count)]
                 ELSE [tried EXCEPT !.pc = "raised",
                                    !.report = "connection failed after 3 attempts"]
            ELSE [tried EXCEPT !.pc = "raised", !.report = "execution failed"]
    /\ UNCHANGED <<core, chunker, ckpt, conv, overlap>>

\* asyncio.sleep returns; continue; the while condition
sleep_done ==
    /\ run.pc = "sleeping"
    /\ run' = IF run.retry_count < max_retries
              THEN [run EXCEPT !.pc = "attempt"]
              ELSE [run EXCEPT !.pc = "raised", !.report = "failed after all retry attempts"]
    /\ UNCHANGED <<core, chunker, ckpt, conv, overlap>>

InitRun ==
    /\ \E compiled \in BOOLEAN :
        run = [NoRun EXCEPT !.compiled = compiled,
                            !.checkpointer = IF compiled THEN "set" ELSE "None"]
    /\ ckpt = NoCheckpoints
    /\ overlap = NoOverlap
    /\ conv = NoConversation
    /\ chunker = NoChunker
    /\ subtopics = <<>>
    /\ chunks = <<>>
    /\ session = NoSession
    /\ svc = NoCall
    /\ subtopics0 = subtopics
    /\ pc = "idle"
    /\ state = GenerationState(1, 1, 0, None, None, EmptyDict, NoEditData, None, None)
    /\ input = state
    /\ visited = <<>>
    /\ routed = "none"
    /\ path = "none"
    /\ invocations = 0
    /\ genRuns = [k \in DictKeys |-> 0]
    /\ emb = NoEmbed

NextRun ==
    \/ run_workflow_call
    \/ attempt_returns
    \/ attempt_raises
    \/ sleep_done

\* an attempt ends and a sleep returns; nothing forces a caller to call again
SpecRun ==
    /\ InitRun
    /\ [][NextRun]_vars
    /\ WF_vars(attempt_returns \/ attempt_raises)
    /\ WF_vars(sleep_done)

RunDone == run.pc \in {"returned", "raised"}

\* the safety part of C15
RetriesBounded ==
    /\ run.ainvokes <= max_retries
    /\ Len(run.errors) <= max_retries
    /\ run.retry_count = Len(run.errors)
    /\ \A i \in 1..Len(run.errors) :
          (i < Len(run.errors) \/ run.pc \in {"attempt", "sleeping"}) =>
              /\ IsConnection(run.errors[i])
              /\ run.delays[i] = 2 ^ i
    /\ (run.pc \in {"attempt", "sleeping"} /\ Len(run.errors) > 0) =>
          (~run.compiled /\ run.checkpointer = "None")
    /\ (RunDone /\ Len(run.errors) = max_retries
           /\ \A i \in 1..max_retries :
                 /\ IsConnection(run.errors[i])
                 /\ ~IsKeyError(run.errors[i])
                 /\ ~IsRecursion(run.errors[i])) =>
          run.report = "connection failed after 3 attempts"
    /\ run.report # "failed after all retry attempts"

\* C15: a run_workflow call makes at most 3 attempts, makes a new attempt only
\* after a failure whose message names a connection problem (with the compiled
\* workflow and the checkpointer reset and a delay of 2, then 4 seconds),
\* raises 'connection failed after 3 attempts' after the third such failure,
\* and every call ends: it returns a state or raises.
C15_BoundedRetries ==
    /\ []RetriesBounded
    /\ (run.pc = "attempt") ~> RunDone

C15_Witness ==
    /\ run.pc = "raised"
    /\ run.report = "connection failed after 3 attempts"
    /\ Len(run.errors) = 3
    /\ run.delays = <<2, 4>>

\* C30: within one run_workflow call the dispatched handler, and with it its
\* model call or Subtopic write, is executed at most once, also when a
\* connection failure after the handler has run makes the call retry.
C30_HandlerAtMostOnce == run.handler_runs <= 1

\* C16: a failure that is not a connection failure (an invalid routing
\* target, a recursion limit, anything else) ends the call after one attempt,
\* a configuration error is never reported as a connection failure and a
\* connection failure never as a configuration error.
C16_NoRetryUnlessConnection ==
    /\ \A i \in 1..Len(run.errors) :
          run.errors[i].type # "ConnectionError" => (i = 1 /\ run.pc = "raised")
    /\ (RunDone /\ run.report = "connection failed after 3 attempts") =>
          \A i \in 1..Len(run.errors) : run.errors[i].type = "ConnectionError"
    /\ (RunDone /\ run.report = "configuration error") =>
          run.errors[Len(run.errors)].type # "ConnectionError"

----------------------------------------------------------------------------
(* The conversation window (src/app/services/conversation_service.py)      *)
(*                                                                         *)
(* conv.messages is the session's conversation_messages in created_at      *)
(* order; a message's id is its creation number.                           *)

max_tokens == 4000

Roles == {"system", "user", "assistant"}

\* count_tokens(content) of the messages that are added
TokenCounts == {500, 1500, 2500}

Message(id, role, token_count) ==
    [id |-> id, role |-> role, token_count |-> token_count]

RECURSIVE SumTokens(_)
SumTokens(msgs) ==
    IF msgs = <<>> THEN 0 ELSE Head(msgs).token_count + SumTokens(Tail(msgs))

SystemMessages(msgs) ==
    LET IsSystem(m) == m.role = "system" IN SelectSeq(msgs, IsSystem)
OtherMessages(msgs) ==
    LET NotSystem(m) == m.role # "system" IN SelectSeq(msgs, NotSystem)

\* a budget that forgets the system messages
tokens_to_keep_of_all(msgs) == max_tokens

\* tokens_to_keep = max_tokens - sum of the system messages' token counts
tokens_to_keep(msgs) == max_tokens - SumTokens(SystemMessages(msgs))

\* the loop over reversed(other_messages): others[n] is looked at with
\* current_tokens kept so far; a message that does not fit is deleted and
\* the loop goes on to the older ones
RECURSIVE messages_to_keep(_, _, _, _)
messages_to_keep(others, n, current_tokens, keep) ==
    IF n = 0 THEN <<>>
    ELSE IF current_tokens + others[n].token_count <= keep
         THEN Append(messages_to_keep(others, n - 1,
                                      current_tokens + others[n].token_count, keep),
                     others[n])
         ELSE messages_to_keep(others, n - 1, current_tokens, keep)

\* an add_message that stores the row and leaves the session counter alone
add_message_without_count ==
    /\ conv.added < MaxMessages
    /\ \E role \in Roles, token_count \in TokenCounts :
        conv' = [conv EXCEPT
            !.messages = Append(@, Message(conv.added + 1, role, token_count)),
            !.added = @ + 1,
            !.call = [op |-> "add_message", before |-> conv.messages,
                      count_before |-> conv.conversation_token_count]]
    /\ UNCHANGED <<core, chunker, ckpt, run, overlap>>

\* add_message: the row and the session counter
add_message ==
    /\ conv.added < MaxMessages
    /\ \E role \in Roles, token_count \in TokenCounts :
        conv' = [conv EXCEPT
            !.messages = Append(@, Message(conv.added + 1, role, token_count)),
            !.conversation_token_count = @ + token_count,
            !.added = @ + 1,
            !.call = [op |-> "add_message", before |-> conv.messages,
                      count_before |-> conv.conversation_token_count]]
    /\ UNCHANGED <<core, chunker, ckpt, run, overlap>>

truncate_conversation_if_needed ==
    /\ LET messages == conv.messages
           total_tokens == SumTokens(messages)
           others == OtherMessages(messages)
           kept == messages_to_keep(others, Len(others), 0, tokens_to_keep(messages))
           keptIds == {kept[i].id : i \in 1..Len(kept)}
           Stays(m) == m.role = "system" \/ m.id \in keptIds
           call == [op |-> "truncate_conversation_if_needed", before |-> messages,
                    count_before |-> conv.conversation_token_count]
       IN
       IF total_tokens > max_tokens
       THEN conv' = [conv EXCEPT
                !.messages = SelectSeq(messages, Stays),
                !.conversation_token_count =
                    SumTokens(SystemMessages(messages) \o kept),
                !.call = call]
       ELSE conv' = [conv EXCEPT !.call = call]
    /\ UNCHANGED <<core, chunker, ckpt, run, overlap>>

InitConversation ==
    /\ conv = NoConversation
    /\ ckpt = NoCheckpoints
    /\ overlap = NoOverlap
    /\ run = NoRun
    /\ chunker = NoChunker
    /\ subtopics = <<>>
    /\ chunks = <<>>
    /\ session = NoSession
    /\ svc = NoCall
    /\ subtopics0 = subtopics
    /\ pc = "idle"
    /\ state = GenerationState(1, 1, 0, None, None, EmptyDict, NoEditData, None, None)
    /\ input = state
    /\ visited = <<>>
    /\ routed = "none"
    /\ path = "none"
    /\ invocations = 0
    /\ genRuns = [k \in DictKeys |-> 0]
    /\ emb = NoEmbed

NextConversation ==
    \/ add_message
    \/ truncate_conversation_if_needed

SpecConversation == InitConversation /\ [][NextConversation]_vars

Truncated == conv.call.op = "truncate_conversation_if_needed"

IdsOf(msgs) == {msgs[i].id : i \in 1..Len(msgs)}

\* C29: after any sequence of add_message and truncate_conversation_if_needed
\* calls on a conversation that started empty with counter 0, the session's
\* conversation_token_count is the sum of token_count over the messages that
\* exist.
C29_TokenCounterConsistent ==
    conv.conversation_token_count = SumTokens(conv.messages)

C29_Witness ==
    /\ Truncated
    /\ SumTokens(conv.call.before) > max_tokens
    /\ Len(conv.messages) < Len(conv.call.before)
    /\ Len(conv.messages) >= 2
    /\ conv.conversation_token_count < conv.call.count_before
    /\ conv.conversation_token_count = SumTokens(conv.messages)

\* C17: after a truncation over budget the deleted non-system messages are
\* the oldest ones: every non-system message that was kept was created after
\* every non-system message that was deleted.
C17_OldestFirst ==
    (Truncated /\ SumTokens(conv.call.before) > max_tokens) =>
        \A i \in 1..Len(conv.call.before), j \in 1..Len(conv.messages) :
            (/\ conv.call.before[i].role # "system"
             /\ conv.call.before[i].id \notin IdsOf(conv.messages)
             /\ conv.messages[j].role # "system") =>
                conv.messages[j].id > conv.call.before[i].id

\* C18: a truncation keeps every system message; the remaining messages fit
\* in max_tokens whenever the system messages alone do; and a conversation
\* that was within the budget is left as it was, counter included.
C18_TruncationKeepsBudget ==
    Truncated =>
        /\ SystemMessages(conv.messages) = SystemMessages(conv.call.before)
        /\ IdsOf(conv.messages) \subseteq IdsOf(conv.call.before)
        /\ SumTokens(SystemMessages(conv.call.before)) <= max_tokens =>
              SumTokens(conv.messages) <= max_tokens
        /\ SumTokens(conv.call.before) <= max_tokens =>
              /\ conv.messages = conv.call.before
              /\ conv.conversation_token_count = conv.call.count_before

C18_Witness ==
    /\ Truncated
    /\ SumTokens(conv.call.before) > max_tokens
    /\ Len(SystemMessages(conv.call.before)) >= 1
    /\ SumTokens(SystemMessages(conv.call.before)) > 0
    /\ Len(conv.messages) < Len(conv.call.before)
    /\ Len(OtherMessages(conv.messages)) >= 1


----------------------------------------------------------------------------
(* Two publish invocations of one thread overlapping on one subtopic        *)
(* (publish_subtopic_node, nodes.py 177-241; run_workflow takes no lock)    *)

\* the handler of invocation w up to its lookup: SessionLocal(), the content
\* selection and db.query(Subtopic).filter(...).first()
overlap_query(w) ==
    /\ overlap.pc[w] = "start"
    /\ \E db \in DbOutcomes :
        LET s == overlap.state[w] IN
        overlap' =
            IF db = "error"
            THEN [overlap EXCEPT
                    !.pc[w] = "failed",
                    !.state[w] = HandlerFailed(s, "Publishing failed: database error")]
            ELSE [overlap EXCEPT
                    !.pc[w] = "queried",
                    !.found[w] = FirstSubtopic(subtopics, s.topic_id,
                                               s.current_subtopic_index + 1)]
    /\ UNCHANGED <<core, chunker, ckpt, run, conv>>

\* the rest of the handler of invocation w: db.add or the update of the row
\* it found, db.commit(), and the returned state
overlap_commit(w) ==
    /\ overlap.pc[w] = "queried"
    /\ \E db \in DbOutcomes :
        LET s == overlap.state[w] IN
        IF db = "error"
        THEN /\ overlap' =
                  [overlap EXCEPT
                    !.pc[w] = "failed",
                    !.state[w] = HandlerFailed(s, "Publishing failed: database error")]
             /\ UNCHANGED subtopics
        ELSE /\ overlap' = [overlap EXCEPT !.pc[w] = "done",
                                           !.state[w] = publish_subtopic_node(s, db)]
             /\ subtopics' = PublishWrite(s, subtopics, overlap.found[w],
                                          ContentToPublish(s))
    /\ UNCHANGED <<pc, state, input, visited, routed, path, invocations, genRuns,
                   subtopics0, chunks, session, svc, emb>>
    /\ UNCHANGED <<chunker, ckpt, run, conv>>

\* both invocations were routed to publish for the same index of topic 1,
\* each with content to publish
InitOverlap ==
    /\ ckpt = NoCheckpoints
    /\ run = NoRun
    /\ conv = NoConversation
    /\ chunker = NoChunker
    /\ subtopics \in InitTables
    /\ subtopics0 = subtopics
    /\ \E idx \in 0..(MaxSubtopics - 1) :
        \E cc \in [Writers -> {"c0", "c1"}] :
            overlap = [pc |-> [w \in Writers |-> "start"],
                       state |-> [w \in Writers |->
                                    GenerationState(1, MaxSubtopics, idx, "publish",
                                                    cc[w], EmptyDict, NoEditData,
                                                    None, None)],
                       found |-> [w \in Writers |-> 0]]
    /\ chunks = <<>>
    /\ session = NoSession
    /\ svc = NoCall
    /\ pc = "idle"
    /\ state = GenerationState(1, 1, 0, None, None, EmptyDict, NoEditData, None, None)
    /\ input = state
    /\ visited = <<>>
    /\ routed = "none"
    /\ path = "none"
    /\ invocations = 0
    /\ genRuns = [k \in DictKeys |-> 0]
    /\ emb = NoEmbed

NextOverlap ==
    \/ \E w \in Writers : overlap_query(w)
    \/ \E w \in Writers : overlap_commit(w)

SpecOverlap == InitOverlap /\ [][NextOverlap]_vars

\* C22: when two invocations of one thread for the same subtopic order
\* overlap, interleaving at their database reads and writes, at most one
\* Subtopic row exists for that (topic_id, order) afterwards, in every
\* interleaving.
C22_AtMostOneRow ==
    (\A w \in Writers : overlap.pc[w] \in {"done", "failed"}) =>
        \A o \in 1..MaxSubtopics : Cardinality(RowsOf(subtopics, 1, o)) <= 1


----------------------------------------------------------------------------
(* Cancelling a session (DELETE /generation/{session_id},                   *)
(* src/app/api/generation.py 253-273) next to the checkpoint store and the  *)
(* edit endpoint                                                            *)

\* GenerationSession.thread_id of the session of the model
SessionThread == "ta"

\* cancel_generation: the session row gets status "cancelled"
cancel_generation ==
    /\ session' = [session EXCEPT !.status = "cancelled"]
    /\ UNCHANGED <<pc, state, input, visited, routed, path, invocations, genRuns,
                   subtopics, subtopics0, chunks, svc, emb>>
    /\ UNCHANGED rest

\* a checkpoint store after the aput calls of earlier invocations: n
\* checkpoints of the session's thread and m of another thread
StoreOf(n, m) ==
    LET mine == [i \in 1..n |->
                   CheckpointRow(SessionThread, i, StateData("s1"), StateMetadata, i)]
        others == [i \in 1..m |->
                   CheckpointRow("tb", n + i, StateData("d1"), StateMetadata, n + i)]
        last == <<[checkpoint |-> "s1", metadata |-> StateMetadata]>>
    IN  [NoCheckpoints EXCEPT
            !.rows = mine \o others,
            !.now = n + m,
            !.live = [th \in Threads |-> IF th = SessionThread THEN n ELSE m],
            !.lastPut = [th \in Threads |->
                            IF (th = SessionThread /\ n > 0) \/ (th # SessionThread /\ m > 0)
                            THEN last ELSE <<>>]]

\* the tables of InitEdit with the session at its first subtopic, and a
\* checkpoint store that holds what the invocations of the session's thread
\* and of another thread have written
InitCancel ==
    /\ InitEditTables
    /\ session.current_subtopic = 1
    /\ \E n \in 0..MaxCheckpointIds, m \in 0..1 : ckpt = StoreOf(n, m)
    /\ chunker = NoChunker
    /\ run = NoRun
    /\ conv = NoConversation
    /\ overlap = NoOverlap

NextCancel ==
    \/ cancel_generation
    \/ delete_thread
    \/ edit_subtopic_content

SpecCancel == InitCancel /\ [][NextCancel]_vars

\* the checkpoints table holds no row of the session's thread
NoCheckpointOfSession ==
    \A r \in 1..Len(ckpt.rows) : ckpt.rows[r].thread_id # SessionThread

\* C26: once a session is cancelled, no checkpoint of its thread is left, and
\* no later request on the session changes the Subtopic table or the
\* session's progress.
C26_CancelStopsResumption ==
    /\ [](session.status = "cancelled" => NoCheckpointOfSession)
    /\ [][session.status = "cancelled" =>
            (subtopics' = subtopics /\ session' = session)]_vars

====
